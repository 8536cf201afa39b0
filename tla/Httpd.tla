-------------------------------- MODULE Httpd --------------------------------
(***************************************************************************)
(* httpd/mod_helloworld and httpd/mod_choices: two modules whose functions *)
(* are called by ap_run_handler, on top of the hooks of hook.c.            *)
(*                                                                         *)
(* The request body comes in brigades of buckets, each of them data (one   *)
(* byte), metadata, end of stream or a bucket that cannot be read.         *)
(***************************************************************************)
EXTENDS Hook

CONSTANTS
    Requests,   \* the requests that come in
    Ext,        \* file name extensions
    Brigades,   \* the brigades ap_get_brigade returns
    MaxBody,    \* bound: bytes of a request body
    BUFLEN,     \* the size apr_bucket_read is asked for
    NoRequest

VARIABLES
    req,     \* the request of the innermost ap_run_handler
    cfg,     \* choices_cfg of the location
    touched, \* functions that set the content type or wrote for this request
    body,    \* check_postdata: "no" input being read, "reading" or "end"
    failed,  \* status # APR_SUCCESS
    count,   \* count
    sent,    \* history: data bytes delivered for this request
    broken,  \* history: a read failed for this request
    report   \* what was said of the body: a number of bytes, or a message

modVars == <<req, touched, body, failed, count, sent, broken, report>>
vars == <<hookVars, cfg, modVars>>

\* What functions return: the values of other modules and the errors of these.
Values == {OK, DECLINED} \cup Errors
          \cup {"HTTP_METHOD_NOT_ALLOWED", "HTTP_INTERNAL_SERVER_ERROR",
               "HTTP_NOT_FOUND"}

ASSUME ValuesAssumption ==
    /\ {Running, Astray} \cap Values = {}
    /\ DECLINED \notin {"HTTP_METHOD_NOT_ALLOWED", "HTTP_INTERNAL_SERVER_ERROR",
                        "HTTP_NOT_FOUND"}

ASSUME BodyAssumption ==
    /\ Brigades \subseteq Seq({"data", "meta", "bad", "eos"})
    /\ BUFLEN \in Nat

choices_cr_cfg == [choices |-> FALSE, transforms |-> {}]

Init ==
    /\ HookInit
    /\ cfg = choices_cr_cfg
    /\ req = NoRequest /\ touched = {} /\ body = "no"
    /\ failed = FALSE /\ count = 0 /\ sent = 0
    /\ broken = FALSE /\ report = "none"

-----------------------------------------------------------------------------
(* The server.                                                             *)

\* The configuration is read between requests: ap_set_flag_slot.
SetChoices ==
    /\ stack = <<>>
    /\ cfg' = [cfg EXCEPT !.choices = ~cfg.choices]
    /\ UNCHANGED <<hookVars, modVars>>

choices_transform_set(ext) ==
    /\ stack = <<>>
    /\ cfg' = [cfg EXCEPT !.transforms = cfg.transforms \cup {ext}]
    /\ UNCHANGED <<hookVars, modVars>>

ServerRestart ==
    /\ Restart
    /\ cfg' = choices_cr_cfg
    /\ UNCHANGED modVars

\* The functions of the two modules neither run hooks nor register any.
OtherCode == stack # <<>> => Top.hook # "handler"

\* helloworld_hooks and choices_hooks, and those of other modules.
RegisterHook ==
    /\ OtherCode
    /\ \E f \in UNION {FnsOf[h] : h \in Hooks} : Register(f)
    /\ UNCHANGED <<cfg, modVars>>

Run == OtherCode /\ RunOther /\ UNCHANGED <<cfg, modVars>>

\* A request reaches ap_run_handler.
Serve ==
    /\ OtherCode
    /\ ap_run_handler
    /\ req' \in Requests
    /\ UNCHANGED <<cfg, touched, body, failed, count, sent, broken, report>>

Sort == SortAll /\ UNCHANGED <<cfg, modVars>>

\* A function of some other module returns.
OtherReturns ==
    /\ stack # <<>> /\ Top.ret = Running
    /\ Top.hook # "handler"
    /\ \E rv \in {OK, DECLINED} \cup Errors : Return(rv)
    /\ UNCHANGED <<cfg, modVars>>

\* With ap_run_handler the request is over.
LeaveRun ==
    /\ stack # <<>>
    /\ Leave
    /\ IF Top.hook = "handler"
       THEN /\ req' = NoRequest /\ touched' = {} /\ body' = "no"
            /\ failed' = FALSE /\ count' = 0 /\ sent' = 0
            /\ broken' = FALSE /\ report' = "none"
       ELSE UNCHANGED modVars
    /\ UNCHANGED cfg

-----------------------------------------------------------------------------
(* mod_helloworld.                                                         *)

InFunction(f) ==
    /\ stack # <<>> /\ Top.ret = Running
    /\ Top.hook = "handler"
    /\ Called = f
    /\ body = "no"

\* printtable: the tables of headers are written before anything else.
Touch(f) == touched' = touched \cup {f}

HasInput == req.length \/ req.encoding = "chunked"

\* check_postdata up to its loop.
check_postdata ==
    \/ /\ req.encoding = "other"
       /\ report' = "unsupported"
       /\ Return(OK)
       /\ UNCHANGED body
    \/ /\ req.encoding # "other" /\ ~HasInput
       /\ report' = "no body"
       /\ Return(OK)
       /\ UNCHANGED body
    \/ /\ req.encoding # "other" /\ HasInput
       /\ body' = "reading"
       /\ UNCHANGED <<report, hookVars>>

helloworld_handler ==
    /\ InFunction("helloworld_handler")
    /\ \/ /\ req.handler # "helloworld"
          /\ Return(DECLINED)
          /\ UNCHANGED <<touched, body, report>>
       \/ /\ req.handler = "helloworld"
          /\ req.method \notin {"GET", "POST"}
          /\ Return("HTTP_METHOD_NOT_ALLOWED")
          /\ UNCHANGED <<touched, body, report>>
       \/ /\ req.handler = "helloworld"
          /\ req.method \in {"GET", "POST"}
          /\ Touch("helloworld_handler")
          /\ check_postdata
    /\ UNCHANGED <<cfg, req, failed, count, sent, broken>>

\* What a brigade holds of the request: the buckets before the end of stream.
Before(b) == {i \in DOMAIN b : \A j \in 1..i : b[j] # "eos"}

\* Mutant: the loop does not stop at the end of the stream.
ReadPastEnd(b) == {i \in DOMAIN b : b[i] \notin {"meta", "eos"}}

\* The buckets the loop reads: it passes over metadata, and stops at the end.
Read(b) == {i \in Before(b) : b[i] # "meta"}

Of(kind, b, S) == {i \in S : b[i] = kind}

\* ap_get_brigade and the loop over the buckets.  The status of a bucket that
\* cannot be read is replaced by that of the next one, and its length, which
\* the failed call may have left alone, is added all the same.
GetBrigade ==
    /\ body = "reading"
    /\ \/ /\ failed' = TRUE /\ broken' = TRUE
          /\ body' = "end"
          /\ UNCHANGED <<count, sent>>
       \/ \E b \in Brigades, left \in {0, BUFLEN} :
            LET data == Cardinality(Of("data", b, Read(b)))
                bad  == Cardinality(Of("bad", b, Read(b)))
                eos  == \E i \in DOMAIN b : b[i] = "eos"
            IN
            /\ sent' = sent + Cardinality(Of("data", b, Before(b)))
            /\ sent' <= MaxBody
            /\ failed' = \E i \in Of("bad", b, Read(b)) : \A j \in Read(b) : j <= i
            /\ broken' = (broken \/ Of("bad", b, Before(b)) # {})
            /\ count' = count + data + left * bad
            /\ body' = IF failed' \/ eos THEN "end" ELSE "reading"
    /\ UNCHANGED <<hookVars, cfg, req, touched, report>>

\* The end of check_postdata and of helloworld_handler.
Report ==
    /\ body = "end"
    /\ report' = IF failed THEN "error" ELSE "got"
    /\ body' = "no"
    /\ Return(OK)
    /\ UNCHANGED <<cfg, req, touched, failed, count, sent, broken>>

-----------------------------------------------------------------------------
(* mod_choices.                                                            *)

\* Mutant: the content type is set before the method is tested.
choices_select_early ==
    /\ InFunction("choices_select")
    /\ \/ /\ req.handler # "choices" \/ ~cfg.choices
          /\ Return(DECLINED)
          /\ UNCHANGED touched
       \/ /\ req.handler = "choices" /\ cfg.choices
          /\ Touch("choices_select")
          /\ IF req.method # "GET" THEN Return(DECLINED) ELSE Return(OK)
    /\ UNCHANGED <<cfg, req, body, failed, count, sent, broken, report>>

choices_select ==
    /\ InFunction("choices_select")
    /\ \/ /\ req.handler # "choices" \/ ~cfg.choices \/ req.method # "GET"
          /\ Return(DECLINED)
          /\ UNCHANGED touched
       \/ /\ req.handler = "choices" /\ cfg.choices /\ req.method = "GET"
          /\ \/ /\ req.filename = "NULL"
                /\ Return("HTTP_INTERNAL_SERVER_ERROR")
                /\ UNCHANGED touched
             \/ /\ req.filename \in {"plain"} \cup cfg.transforms
                /\ Touch("choices_select")
                /\ Return(OK)
             \/ /\ req.filename \in Ext \ cfg.transforms
                /\ Touch("choices_select")
                /\ Return("HTTP_NOT_FOUND")
    /\ UNCHANGED <<cfg, req, body, failed, count, sent, broken, report>>

\* Nothing is said of what comes after a runner has called what is no function.
GoneAstray == stack # <<>> /\ Top.ret = Astray /\ UNCHANGED vars

Next ==
    \/ SetChoices
    \/ \E ext \in Ext : choices_transform_set(ext)
    \/ ServerRestart
    \/ RegisterHook
    \/ Sort
    \/ Run
    \/ Serve
    \/ OtherReturns
    \/ LeaveRun
    \/ helloworld_handler
    \/ GetBrigade
    \/ Report
    \/ choices_select
    \/ GoneAstray

Spec == Init /\ [][Next]_vars

-----------------------------------------------------------------------------
(* Properties.                                                             *)

\* A module that declines a request has not touched the response, so that the
\* module asked next starts from a clean one; and no request is answered by two.
DeclinedUntouched ==
    \A i \in DOMAIN stack : stack[i].hook = "handler" =>
        /\ \A n \in DOMAIN stack[i].rvs :
              stack[i].rvs[n] = DECLINED =>
                 link["handler"].fns[n] \notin touched
        /\ Cardinality(touched) <= 1

\* The number of bytes reported for the body is the number delivered, unless a
\* bucket could not be read; and "error" is said only when a read failed.
CountExact ==
    /\ report = "got" /\ ~broken => count = sent
    /\ report = "error" => broken
===============================================================================
