CONSTANTS
    Verbs = {"Get", "Post"}
    Databases = {"", "db"}
    Paths = {"/p"}
    Params <- MCNoParams
    AuthTypes = {"None", "Basic"}
    Host = "h"
    Credentials = "u:pw"
    ResponseHeaders <- MCResponseHeaders
    ResponseBodies <- MCResponseBodies
SPECIFICATION Spec
INVARIANT ResponseAsSent
