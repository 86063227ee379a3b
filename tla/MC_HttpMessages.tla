--------------------------- MODULE MC_HttpMessages ---------------------------
(* Small request and response values for HttpMessages.                     *)
EXTENDS HttpMessages

\* one header whose name and value each come in up to two fragments, and one
\* more header; names and values are sequences of characters
MCResponseHeaders ==
    { <<>>,
      << [name |-> <<"c", "t">>, value |-> <<"j", "s">>],
         [name |-> <<"i">>, value |-> <<"1", "2">>] >> }

MCResponseBodies == { <<>>, <<"b", "o", "d">> }

\* parameter lists: none, or one pair
MCNoParams == { <<>> }
MCParams == { <<>>, << <<"k", "v">> >> }
====
