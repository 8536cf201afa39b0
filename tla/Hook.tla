--------------------------------- MODULE Hook ---------------------------------
(***************************************************************************)
(* httpd/hook.c, the hooks of the Apache core after the preprocessor: nine *)
(* arrays of functions, filled by the modules, and the runners that call   *)
(* them.  A function may itself run hooks and register functions, so a run *)
(* is a frame on a stack.                                                  *)
(*                                                                         *)
(* An array is the functions pushed on it, the capacity of its block and   *)
(* the configuration whose pool the block is in.  A runner keeps the       *)
(* address of the block it found at the start, and reads the number of     *)
(* elements again before each call: only the capacity of the block tells   *)
(* whether the element it then reads is there.  If not, what it calls is    *)
(* undefined: the run is Astray, and the model goes no further.             *)
(***************************************************************************)
EXTENDS Integers, Sequences, FiniteSets

CONSTANTS
    FnsOf,        \* the functions that modules register, for each hook
    OK, DECLINED, \* returned by functions and runners
    Errors,       \* the other values that functions return
    Running,      \* no value yet: the runner is inside a function
    Astray,       \* no value: the runner has left the block it found
    NoArray,      \* a NULL link
    MaxPushes,    \* bounds: functions registered in one configuration,
    MaxArrays,    \* hooks they are registered for,
    MaxDepth,     \* runs inside each other,
    MaxRestarts   \* and configurations after the first

RunAll == {"header_parser", "pre_config", "post_config", "open_logs"}
RunFirst == {"handler", "quick_handler"}
Void == {"test_config", "child_init", "optional_fn_retrieve"}
Hooks == RunAll \cup RunFirst \cup Void

ASSUME HookAssumption ==
    /\ OK # DECLINED
    /\ {OK, DECLINED} \cap Errors = {}
    /\ {Running, Astray} \cap (Errors \cup {OK, DECLINED}) = {}
    /\ Running # Astray
    /\ MaxPushes \in Nat /\ MaxArrays \in Nat
    /\ MaxDepth \in Nat /\ MaxRestarts \in Nat

\* apr_array_header_t: its functions, the size of its block, and its pool.
ArrayOf(fns) == [fns : Seq(fns), cap : Nat, pool : Nat]

ASSUME ArrayAssumption ==
    NoArray \notin ArrayOf(UNION {FnsOf[h] : h \in Hooks})

VARIABLES
    link,     \* _hooks: the array of each hook, or NoArray
    registry, \* the links handed to apr_hook_sort_register
    pool,     \* the configuration apr_hook_global_pool belongs to
    stack     \* the runs in progress, the innermost last

hookVars == <<link, registry, pool, stack>>

HookInit ==
    /\ link = [h \in Hooks |-> NoArray]
    /\ registry = <<>>
    /\ pool = 0
    /\ stack = <<>>

Top == stack[Len(stack)]

\* The code that may call in: the server itself, or the innermost function.
CanCall == stack # <<>> => Top.ret = Running

-----------------------------------------------------------------------------
(* Registration.                                                           *)

Pushed == {e \in Hooks \X (1..MaxPushes) :
             link[e[1]] # NoArray /\ e[2] <= Len(link[e[1]].fns)}

\* Modules register functions for any hook, one that is being run included.
MayRegister(h) ==
    /\ CanCall
    /\ Cardinality(Pushed) < MaxPushes
    /\ link[h] = NoArray => Len(registry) < MaxArrays

\* apr_array_make(apr_hook_global_pool, 1, ...)
Made == [fns |-> <<>>, cap |-> 1, pool |-> pool]

\* apr_array_push: a full block is replaced by one of twice its size.
Push(a, f) ==
    [fns  |-> Append(a.fns, f),
     cap  |-> IF Len(a.fns) = a.cap THEN 2 * a.cap ELSE a.cap,
     pool |-> a.pool]

\* Mutant: the hook is not registered for sorting.
AddHookUnsorted(h, f) ==
    /\ MayRegister(h)
    /\ link' = [link EXCEPT ![h] = Push(IF link[h] = NoArray THEN Made
                                                             ELSE link[h], f)]
    /\ UNCHANGED <<registry, pool, stack>>

AddHook(h, f) ==
    /\ MayRegister(h)
    /\ IF link[h] = NoArray
       THEN /\ link' = [link EXCEPT ![h] = Push(Made, f)]
            /\ registry' = Append(registry, h)
       ELSE /\ link' = [link EXCEPT ![h] = Push(link[h], f)]
            /\ UNCHANGED registry
    /\ UNCHANGED <<pool, stack>>

ap_hook_header_parser(f)        == AddHook("header_parser", f)
ap_hook_pre_config(f)           == AddHook("pre_config", f)
ap_hook_test_config(f)          == AddHook("test_config", f)
ap_hook_post_config(f)          == AddHook("post_config", f)
ap_hook_open_logs(f)            == AddHook("open_logs", f)
ap_hook_child_init(f)           == AddHook("child_init", f)
ap_hook_handler(f)              == AddHook("handler", f)
ap_hook_quick_handler(f)        == AddHook("quick_handler", f)
ap_hook_optional_fn_retrieve(f) == AddHook("optional_fn_retrieve", f)

\* apr_hook_sort_all: each registered link gets a sorted copy of its array, in
\* a block that is exactly full.  The order is the library's.
SortAll ==
    /\ stack = <<>>
    /\ link' = [h \in Hooks |->
                  IF \E i \in DOMAIN registry : registry[i] = h
                  THEN [link[h] EXCEPT !.cap = Len(link[h].fns)]
                  ELSE link[h]]
    /\ UNCHANGED <<registry, pool, stack>>

\* A restart: the pool is cleared, and apr_hook_deregister_all resets the
\* links that were handed to apr_hook_sort_register.
Restart ==
    /\ stack = <<>>
    /\ pool < MaxRestarts
    /\ pool' = pool + 1
    /\ link' = [h \in Hooks |->
                  IF \E i \in DOMAIN registry : registry[i] = h
                  THEN NoArray ELSE link[h]]
    /\ registry' = <<>>
    /\ UNCHANGED stack

-----------------------------------------------------------------------------
(* The runners.                                                            *)

\* What a run returns that no function stopped.
Default(h) == IF h \in RunFirst THEN DECLINED ELSE OK

\* Mutant: OK ends a run of all functions.
StopsOnOk(h, rv) ==
    \/ h \in RunAll /\ rv # DECLINED
    \/ h \in RunFirst /\ rv # DECLINED

Stops(h, rv) ==
    \/ h \in RunAll /\ rv \notin {OK, DECLINED}
    \/ h \in RunFirst /\ rv # DECLINED

RunHook(h) ==
    /\ CanCall
    /\ Len(stack) < MaxDepth
    /\ stack' =
         Append(stack,
           [hook |-> h, rvs |-> <<>>,
            cap  |-> IF link[h] = NoArray THEN 0 ELSE link[h].cap,
            ret  |-> IF link[h] = NoArray THEN Default(h) ELSE Running])
    /\ UNCHANGED <<link, registry, pool>>

ap_run_header_parser        == RunHook("header_parser")
ap_run_pre_config           == RunHook("pre_config")
ap_run_test_config          == RunHook("test_config")
ap_run_post_config          == RunHook("post_config")
ap_run_open_logs            == RunHook("open_logs")
ap_run_child_init           == RunHook("child_init")
ap_run_handler              == RunHook("handler")
ap_run_quick_handler        == RunHook("quick_handler")
ap_run_optional_fn_retrieve == RunHook("optional_fn_retrieve")

\* The innermost function.
Called == link[Top.hook].fns[Len(Top.rvs) + 1]

\* Mutant: the loop runs one function too far.
AfterPast(n) ==
    IF n > Len(link[Top.hook].fns) THEN Default(Top.hook)
    ELSE IF n < Top.cap THEN Running ELSE Astray

\* The n functions called so far did not stop the run: either these are all
\* there are by now, or it goes on with the next one in its block.
After(n) ==
    IF n >= Len(link[Top.hook].fns) THEN Default(Top.hook)
    ELSE IF n < Top.cap THEN Running ELSE Astray

\* The innermost function returns rv.
Return(rv) ==
    /\ stack # <<>> /\ Top.ret = Running
    /\ stack' =
         [stack EXCEPT ![Len(stack)].rvs = Append(Top.rvs, rv),
                       ![Len(stack)].ret =
             IF Stops(Top.hook, rv) THEN rv ELSE After(Len(Top.rvs) + 1)]
    /\ UNCHANGED <<link, registry, pool>>

\* The runner returns to its caller.
Leave ==
    /\ stack # <<>> /\ Top.ret \notin {Running, Astray}
    /\ stack' = SubSeq(stack, 1, Len(stack) - 1)
    /\ UNCHANGED <<link, registry, pool>>

Register(f) ==
    \/ f \in FnsOf["header_parser"] /\ ap_hook_header_parser(f)
    \/ f \in FnsOf["pre_config"] /\ ap_hook_pre_config(f)
    \/ f \in FnsOf["test_config"] /\ ap_hook_test_config(f)
    \/ f \in FnsOf["post_config"] /\ ap_hook_post_config(f)
    \/ f \in FnsOf["open_logs"] /\ ap_hook_open_logs(f)
    \/ f \in FnsOf["child_init"] /\ ap_hook_child_init(f)
    \/ f \in FnsOf["handler"] /\ ap_hook_handler(f)
    \/ f \in FnsOf["quick_handler"] /\ ap_hook_quick_handler(f)
    \/ f \in FnsOf["optional_fn_retrieve"] /\ ap_hook_optional_fn_retrieve(f)

RunOther ==
    \/ ap_run_header_parser
    \/ ap_run_pre_config
    \/ ap_run_test_config
    \/ ap_run_post_config
    \/ ap_run_open_logs
    \/ ap_run_child_init
    \/ ap_run_quick_handler
    \/ ap_run_optional_fn_retrieve

-----------------------------------------------------------------------------
(* Properties.                                                             *)

\* A runner reads function n of the block it found when it started: that block
\* has an element n, and the array still has one.  The length is read again
\* before each call, the address of the block is not, so this goes wrong in one
\* case: functions were registered for its own hook while it ran, more of them
\* than its block had room for, and it has called all that are in the block.
ReadInBounds ==
    \A i \in DOMAIN stack :
        LET n == Len(stack[i].rvs)
            functions == Len(link[stack[i].hook].fns)
        IN /\ stack[i].ret = Running => n < stack[i].cap /\ n < functions
           /\ stack[i].ret = Astray => n = stack[i].cap /\ n < functions

\* No link points into the pool of an earlier configuration, and the library
\* knows every link there is exactly once, so that it can sort and reset it.
LinksOfThisConfiguration ==
    \A h \in Hooks : link[h] # NoArray =>
        /\ link[h].pool = pool
        /\ \E i \in DOMAIN registry :
              /\ registry[i] = h
              /\ \A j \in DOMAIN registry : registry[j] = h => j = i

\* What a runner promises its caller: an OK of the hooks that run all means
\* that each function of the hook was called and none failed; a hook that
\* takes the first answer declines only when each function of it declined; any
\* other value is the last function's, and ended the run.
Everyone(f) == link[f.hook] # NoArray => Len(f.rvs) = Len(link[f.hook].fns)

RunnerContract ==
    \A i \in DOMAIN stack :
        LET f == stack[i]
            pass == IF f.hook \in RunFirst THEN {DECLINED} ELSE {OK, DECLINED}
        IN f.ret \notin {Running, Astray} =>
             IF f.hook \in Void
             THEN Everyone(f)
             ELSE \/ /\ f.ret = Default(f.hook)
                     /\ Everyone(f)
                     /\ \A n \in DOMAIN f.rvs : f.rvs[n] \in pass
                  \/ /\ f.rvs # <<>> /\ f.ret = f.rvs[Len(f.rvs)]
                     /\ f.ret \notin pass
                     /\ \A n \in 1..Len(f.rvs) - 1 : f.rvs[n] \in pass
===============================================================================
