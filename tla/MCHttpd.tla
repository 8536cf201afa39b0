------------------------------- MODULE MCHttpd -------------------------------
(***************************************************************************)
(* Httpd with the functions of mod_helloworld and mod_choices for the      *)
(* handler hook, and one function of another module for every other hook.  *)
(***************************************************************************)
EXTENDS Httpd

MCFnsOf == [h \in Hooks |-> IF h = "handler"
                            THEN {"helloworld_handler", "choices_select"}
                            ELSE {"other"}]

\* Every case the two functions tell apart.
MCRequests ==
    [handler : {"helloworld"}, method : {"GET"}, filename : {"plain"},
     length : BOOLEAN, encoding : {"none", "chunked", "other"}]
    \cup
    [handler : {"choices"}, method : {"GET"},
     filename : {"NULL", "plain", "html"}, length : {FALSE},
     encoding : {"none"}]
    \cup
    [handler : {"helloworld", "choices", "default"}, method : {"PUT"},
     filename : {"plain"}, length : {FALSE}, encoding : {"none"}]

\* Data, metadata, a bucket that cannot be read, and the end of the stream in
\* the middle of a brigade.
MCBrigades ==
    {<<>>, <<"data">>, <<"meta", "data", "eos">>, <<"bad", "data">>,
     <<"data", "bad">>, <<"eos", "data">>}
===============================================================================
