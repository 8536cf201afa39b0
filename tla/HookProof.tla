------------------------------ MODULE HookProof ------------------------------
(***************************************************************************)
(* Proofs about Hook and Httpd, for any functions, return values,          *)
(* requests, bodies, depth of runs and numbers of registrations and        *)
(* restarts.                                                               *)
(*                                                                         *)
(* Whatever the modules do, _hooks and the runs change by one of a few     *)
(* moves (HookMove).  The invariant says what is known of the arrays       *)
(* (LinkInv) and of the runs in progress (RunInv).  ServeInv and BodyInv   *)
(* add what the handlers do with a request and its body.                   *)
(***************************************************************************)
EXTENDS Httpd, FiniteSetTheorems, TLAPS

Fns == UNION {FnsOf[h] : h \in Hooks}
Array == ArrayOf(Fns)
Frame == [hook : Hooks, rvs : Seq(Values), cap : Nat,
          ret : Values \cup {Running, Astray}]

Pass(h) == IF h \in RunFirst THEN {DECLINED} ELSE {OK, DECLINED}

HookMove ==
    \/ \E h \in Hooks : \E f \in FnsOf[h] : AddHook(h, f)
    \/ SortAll
    \/ Restart
    \/ \E h \in Hooks : RunHook(h)
    \/ \E rv \in Values : Return(rv)
    \/ Leave
    \/ UNCHANGED hookVars

TypeInv ==
    /\ pool \in Nat
    /\ link \in [Hooks -> Array \cup {NoArray}]
    /\ registry \in Seq(Hooks)
    /\ stack \in Seq(Frame)

\* The arrays that exist are those in the registry, each there once, in the
\* present pool, and none of them is empty.
LinkInv ==
    /\ \A i, j \in DOMAIN registry : registry[i] = registry[j] => i = j
    /\ \A i \in DOMAIN registry : link[registry[i]] # NoArray
    /\ \A h \in Hooks : link[h] # NoArray =>
          /\ link[h].pool = pool
          /\ \E i \in DOMAIN registry : registry[i] = h
          /\ Len(link[h].fns) \in 1..link[h].cap

\* A run that has not returned was not stopped by the values so far, and there
\* is a function left to call: in the block the run holds on to, or just past it.
Unfinished(f) ==
    /\ link[f.hook] # NoArray
    /\ Len(f.rvs) < Len(link[f.hook].fns)
    /\ f.ret = Running => Len(f.rvs) < f.cap
    /\ f.ret = Astray => Len(f.rvs) = f.cap
    /\ f.hook \notin Void => \A n \in DOMAIN f.rvs : f.rvs[n] \in Pass(f.hook)

\* All runs but the innermost are inside a function.
RunInv ==
    /\ \A i \in 1..Len(stack) - 1 : stack[i].ret = Running
    /\ \A i \in DOMAIN stack : stack[i].ret \in {Running, Astray} =>
          Unfinished(stack[i])

\* The runs that have returned, of which there is one at most.
Contract(f) ==
    f.ret \notin {Running, Astray} =>
        IF f.hook \in Void
        THEN Everyone(f)
        ELSE \/ /\ f.ret = Default(f.hook)
                /\ Everyone(f)
                /\ \A n \in DOMAIN f.rvs : f.rvs[n] \in Pass(f.hook)
             \/ /\ f.rvs # <<>> /\ f.ret = f.rvs[Len(f.rvs)]
                /\ f.ret \notin Pass(f.hook)
                /\ \A n \in 1..Len(f.rvs) - 1 : f.rvs[n] \in Pass(f.hook)

IInv == TypeInv /\ LinkInv /\ RunInv /\ \A i \in DOMAIN stack : Contract(stack[i])

-----------------------------------------------------------------------------
(* Every step of the server and the modules is a move.                     *)

LEMMA ServerMoves ==
    ASSUME Next, ~UNCHANGED hookVars
    PROVE  HookMove
PROOF
<1> USE DEF hookVars
<1>1. CASE ServerRestart
  BY <1>1 DEF ServerRestart, HookMove
<1>2. CASE RegisterHook
  BY <1>2 DEF RegisterHook, Register, HookMove, Hooks, RunAll, RunFirst, Void,
       ap_hook_header_parser, ap_hook_pre_config, ap_hook_test_config,
       ap_hook_post_config, ap_hook_open_logs, ap_hook_child_init,
       ap_hook_handler, ap_hook_quick_handler, ap_hook_optional_fn_retrieve
<1>3. CASE Sort
  BY <1>3 DEF Sort, HookMove
<1>4. CASE Run
  BY <1>4 DEF Run, RunOther, HookMove, Hooks, RunAll, RunFirst, Void,
       ap_run_header_parser, ap_run_pre_config, ap_run_test_config,
       ap_run_post_config, ap_run_open_logs, ap_run_child_init,
       ap_run_quick_handler, ap_run_optional_fn_retrieve
<1>5. CASE Serve
  BY <1>5 DEF Serve, ap_run_handler, HookMove, Hooks, RunFirst
<1>6. CASE OtherReturns
  BY <1>6 DEF OtherReturns, HookMove, Values
<1>7. CASE LeaveRun
  BY <1>7 DEF LeaveRun, HookMove
<1>8. CASE helloworld_handler
  BY <1>8 DEF helloworld_handler, check_postdata, HookMove, Values
<1>9. CASE Report
  BY <1>9 DEF Report, HookMove, Values
<1>10. CASE choices_select
  BY <1>10 DEF choices_select, HookMove, Values
<1>11. CASE \/ SetChoices \/ (\E ext \in Ext : choices_transform_set(ext))
            \/ GetBrigade \/ GoneAstray
  BY <1>11 DEF SetChoices, choices_transform_set, GetBrigade, GoneAstray, vars
<1> QED
  BY <1>1, <1>2, <1>3, <1>4, <1>5, <1>6, <1>7, <1>8, <1>9, <1>10, <1>11 DEF Next

-----------------------------------------------------------------------------
(* The moves preserve the invariant, one by one.                           *)

\* A function is added to an array that may not be there yet.
LEMMA PushType ==
    ASSUME NEW a \in Array, NEW f \in Fns
    PROVE  /\ Push(a, f) \in Array
           /\ Push(a, f).pool = a.pool
           /\ Len(Push(a, f).fns) = Len(a.fns) + 1
           /\ Len(a.fns) <= a.cap /\ 1 <= a.cap =>
                Len(Push(a, f).fns) <= Push(a, f).cap
PROOF
<1>1. /\ a.fns \in Seq(Fns) /\ a.cap \in Nat /\ a.pool \in Nat
      /\ a = [fns |-> a.fns, cap |-> a.cap, pool |-> a.pool]
  BY DEF Array, ArrayOf
<1>2. /\ Append(a.fns, f) \in Seq(Fns)
      /\ Len(Append(a.fns, f)) = Len(a.fns) + 1
      /\ Len(a.fns) \in Nat
  BY <1>1
<1> QED
  BY <1>1, <1>2 DEF Push, Array, ArrayOf

\* What adding a function leaves: the hook has an array, with the functions it
\* had and one more, and the others have what they had.
LEMMA AddHookEffect ==
    ASSUME IInv, NEW h \in Hooks, NEW f \in FnsOf[h], AddHook(h, f)
    PROVE  /\ TypeInv'
           /\ UNCHANGED <<pool, stack>>
           /\ \A g \in Hooks : g # h => link'[g] = link[g]
           /\ link'[h] \in Array /\ link'[h] # NoArray
           /\ link'[h].pool = pool
           /\ Len(link'[h].fns) \in 1..link'[h].cap
           /\ link[h] # NoArray => Len(link'[h].fns) = Len(link[h].fns) + 1
           /\ link[h] = NoArray => registry' = Append(registry, h)
           /\ link[h] # NoArray => registry' = registry
PROOF
<1>1. f \in Fns
  BY DEF Fns
<1>2. CASE link[h] = NoArray
  <2>1. Made \in Array /\ Made.pool = pool /\ Len(Made.fns) = 0 /\ Made.cap = 1
    BY DEF Made, Array, ArrayOf, IInv, TypeInv
  <2>2. /\ Push(Made, f) \in Array /\ Push(Made, f).pool = pool
        /\ Len(Push(Made, f).fns) = 1 /\ Len(Push(Made, f).fns) <= Push(Made, f).cap
    <3>1. /\ Push(Made, f) \in Array
          /\ Push(Made, f).pool = Made.pool
          /\ Len(Push(Made, f).fns) = Len(Made.fns) + 1
          /\ Len(Made.fns) <= Made.cap /\ 1 <= Made.cap =>
               Len(Push(Made, f).fns) <= Push(Made, f).cap
      BY <1>1, <2>1, PushType
    <3> QED
      BY <2>1, <3>1
  <2>3. /\ link' = [link EXCEPT ![h] = Push(Made, f)]
        /\ registry' = Append(registry, h)
        /\ UNCHANGED <<pool, stack>>
    BY <1>2 DEF AddHook
  <2>4. link'[h] = Push(Made, f) /\ \A g \in Hooks : g # h => link'[g] = link[g]
    BY <2>3 DEF IInv, TypeInv
  <2>5. Push(Made, f).cap \in Nat
    BY <2>2 DEF Array, ArrayOf
  <2>6. registry' \in Seq(Hooks) /\ link' \in [Hooks -> Array \cup {NoArray}]
    BY <2>2, <2>3 DEF IInv, TypeInv
  <2>7. TypeInv'
    BY <2>3, <2>6 DEF IInv, TypeInv
  <2>8. Push(Made, f) # NoArray
    BY <2>2, ArrayAssumption DEF Array, Fns
  <2>9. Len(Push(Made, f).fns) \in 1..Push(Made, f).cap
    BY <2>2, <2>5
  <2> QED
    BY <1>2, <2>2, <2>3, <2>4, <2>7, <2>8, <2>9
<1>3. CASE link[h] # NoArray
  <2>1. link[h] \in Array /\ link[h].pool = pool /\ Len(link[h].fns) \in 1..link[h].cap
    BY <1>3 DEF IInv, TypeInv, LinkInv
  <2>2. link[h].cap \in Nat /\ Len(link[h].fns) \in Nat
    BY <2>1 DEF Array, ArrayOf
  <2>3. /\ Push(link[h], f) \in Array /\ Push(link[h], f).pool = pool
        /\ Len(Push(link[h], f).fns) = Len(link[h].fns) + 1
        /\ Len(Push(link[h], f).fns) <= Push(link[h], f).cap
    BY <1>1, <2>1, <2>2, PushType
  <2>4. /\ link' = [link EXCEPT ![h] = Push(link[h], f)]
        /\ registry' = registry
        /\ UNCHANGED <<pool, stack>>
    BY <1>3 DEF AddHook
  <2>5. link'[h] = Push(link[h], f) /\ \A g \in Hooks : g # h => link'[g] = link[g]
    BY <2>4 DEF IInv, TypeInv
  <2>6. Push(link[h], f).cap \in Nat
    BY <2>3 DEF Array, ArrayOf
  <2>7. link' \in [Hooks -> Array \cup {NoArray}]
    BY <2>3, <2>4 DEF IInv, TypeInv
  <2>8. TypeInv'
    BY <2>4, <2>7 DEF IInv, TypeInv
  <2>9. Push(link[h], f) # NoArray
    BY <2>3, ArrayAssumption DEF Array, Fns
  <2>10. Len(Push(link[h], f).fns) \in 1..Push(link[h], f).cap
    BY <2>2, <2>3, <2>6
  <2> QED
    BY <1>3, <2>3, <2>4, <2>5, <2>8, <2>9, <2>10
<1> QED
  BY <1>2, <1>3

LEMMA AddHookStep ==
    ASSUME IInv, NEW h \in Hooks, NEW f \in FnsOf[h], AddHook(h, f)
    PROVE  IInv'
PROOF
<1>1. /\ TypeInv'
      /\ UNCHANGED <<pool, stack>>
      /\ \A g \in Hooks : g # h => link'[g] = link[g]
      /\ link'[h] \in Array /\ link'[h] # NoArray
      /\ link'[h].pool = pool
      /\ Len(link'[h].fns) \in 1..link'[h].cap
      /\ link[h] # NoArray => Len(link'[h].fns) = Len(link[h].fns) + 1
      /\ link[h] = NoArray => registry' = Append(registry, h)
      /\ link[h] # NoArray => registry' = registry
  BY AddHookEffect
<1>2. LinkInv'
  <2>1. CASE link[h] = NoArray
    <3>1. registry' = Append(registry, h) /\ registry \in Seq(Hooks)
      BY <1>1, <2>1 DEF IInv, TypeInv
    <3>2. /\ DOMAIN registry' = 1..Len(registry) + 1
          /\ DOMAIN registry = 1..Len(registry)
          /\ Len(registry) \in Nat
          /\ registry'[Len(registry) + 1] = h
          /\ \A i \in 1..Len(registry) : registry'[i] = registry[i] /\ registry[i] \in Hooks
      BY <3>1
    <3>3. \A i \in 1..Len(registry) : registry[i] # h
      BY <2>1, <3>2 DEF IInv, LinkInv
    <3>4. \A i, j \in DOMAIN registry' : registry'[i] = registry'[j] => i = j
      BY <3>2, <3>3 DEF IInv, LinkInv
    <3>5. \A i \in DOMAIN registry' : link'[registry'[i]] # NoArray
      BY <1>1, <3>2, <3>3 DEF IInv, LinkInv
    <3>6. \A g \in Hooks : link'[g] # NoArray => \E i \in DOMAIN registry' : registry'[i] = g
      BY <1>1, <3>2 DEF IInv, LinkInv
    <3> QED
      BY <1>1, <3>4, <3>5, <3>6 DEF IInv, LinkInv
  <2>2. CASE link[h] # NoArray
    BY <1>1, <2>2 DEF IInv, TypeInv, LinkInv
  <2> QED
    BY <2>1, <2>2
<1>3. \A i \in DOMAIN stack : stack[i].ret = Running
  BY DEF AddHook, MayRegister, CanCall, Top, IInv, TypeInv, RunInv
<1>4. RunInv'
  <2>1. ASSUME NEW i \in DOMAIN stack PROVE Unfinished(stack[i])'
    <3>1. Unfinished(stack[i]) /\ stack[i] \in Frame /\ stack'[i] = stack[i]
      <4>1. stack[i].ret \in {Running, Astray}
        BY <1>3
      <4>2. Unfinished(stack[i])
        BY <4>1 DEF IInv, RunInv
      <4>3. stack[i] \in Frame
        BY DEF IInv, TypeInv
      <4> QED
        BY <1>1, <4>2, <4>3
    <3>2. stack[i].hook \in Hooks /\ Len(stack[i].rvs) \in Nat
      BY <3>1 DEF Frame
    <3>3. /\ link[stack[i].hook] # NoArray
          /\ Len(stack[i].rvs) < Len(link[stack[i].hook].fns)
      BY <3>1 DEF Unfinished
    <3>4. Len(link[stack[i].hook].fns) \in Nat
      BY <3>2, <3>3 DEF IInv, TypeInv, Array, ArrayOf
    <3>5. /\ link'[stack[i].hook] # NoArray
          /\ Len(stack[i].rvs) < Len(link'[stack[i].hook].fns)
      <4>1. CASE stack[i].hook = h
        BY <1>1, <3>2, <3>3, <3>4, <4>1
      <4>2. CASE stack[i].hook # h
        BY <1>1, <3>2, <3>3, <4>2
      <4> QED
        BY <4>1, <4>2
    <3> QED
      BY <3>1, <3>5 DEF Unfinished
  <2> QED
    BY <1>1, <1>3, <2>1 DEF IInv, TypeInv, RunInv
<1>5. \A i \in DOMAIN stack' : Contract(stack[i])'
  BY <1>1, <1>3 DEF Contract
<1> QED
  BY <1>1, <1>2, <1>4, <1>5 DEF IInv

LEMMA SortAllStep ==
    ASSUME IInv, SortAll
    PROVE  IInv'
PROOF
<1> DEFINE Known(h) == \E i \in DOMAIN registry : registry[i] = h
<1>1. /\ stack = <<>> /\ UNCHANGED <<registry, pool, stack>>
      /\ link' = [h \in Hooks |->
                    IF Known(h) THEN [link[h] EXCEPT !.cap = Len(link[h].fns)]
                                ELSE link[h]]
  BY DEF SortAll
<1>2. \A h \in Hooks : Known(h) =>
         /\ link'[h] \in Array /\ link'[h] # NoArray
         /\ link'[h].pool = pool
         /\ Len(link'[h].fns) \in 1..link'[h].cap
  <2> SUFFICES ASSUME NEW h \in Hooks, Known(h)
               PROVE  /\ link'[h] \in Array /\ link'[h] # NoArray
                      /\ link'[h].pool = pool
                      /\ Len(link'[h].fns) \in 1..link'[h].cap
    OBVIOUS
  <2>1. link[h] # NoArray
    BY DEF IInv, LinkInv
  <2>2. link[h] \in Array /\ link[h].pool = pool /\ Len(link[h].fns) \in 1..link[h].cap
    BY <2>1 DEF IInv, TypeInv, LinkInv
  <2>3. Len(link[h].fns) \in Nat /\ Len(link[h].fns) >= 1
    BY <2>2 DEF Array, ArrayOf
  <2>4. link'[h] = [link[h] EXCEPT !.cap = Len(link[h].fns)]
    BY <1>1
  <2>5. /\ link'[h] \in Array /\ link'[h].pool = pool
        /\ Len(link'[h].fns) = link'[h].cap /\ link'[h].cap = Len(link[h].fns)
    BY <2>2, <2>3, <2>4 DEF Array, ArrayOf
  <2> QED
    BY <2>3, <2>5, ArrayAssumption DEF Array, Fns
<1>3. \A h \in Hooks : ~Known(h) => link'[h] = link[h] /\ link[h] = NoArray
  BY <1>1 DEF IInv, LinkInv
<1>4. link' \in [Hooks -> Array \cup {NoArray}]
  <2>1. \A h \in Hooks : link'[h] \in Array \cup {NoArray}
    BY <1>2, <1>3
  <2>2. link' = [h \in Hooks |-> link'[h]]
    BY <1>1
  <2> QED
    BY <2>1, <2>2
<1>5. TypeInv'
  BY <1>1, <1>4 DEF IInv, TypeInv
<1>6. LinkInv'
  <2>1. \A i \in DOMAIN registry : registry[i] \in Hooks /\ Known(registry[i])
    BY DEF IInv, TypeInv
  <2> QED
    BY <1>1, <1>2, <1>3, <2>1 DEF IInv, LinkInv
<1>7. RunInv' /\ \A i \in DOMAIN stack' : Contract(stack[i])'
  BY <1>1 DEF RunInv
<1> QED
  BY <1>5, <1>6, <1>7 DEF IInv

LEMMA RestartStep ==
    ASSUME IInv, Restart
    PROVE  IInv'
PROOF
<1>1. /\ stack = <<>> /\ stack' = stack /\ registry' = <<>> /\ pool' = pool + 1
      /\ link' = [h \in Hooks |-> IF \E i \in DOMAIN registry : registry[i] = h
                                  THEN NoArray ELSE link[h]]
  BY DEF Restart
<1>2. \A h \in Hooks : link'[h] = NoArray
  BY <1>1 DEF IInv, LinkInv
<1>3. TypeInv'
  <2>1. pool' \in Nat /\ registry' \in Seq(Hooks) /\ stack' \in Seq(Frame)
    BY <1>1 DEF IInv, TypeInv
  <2>2. link' \in [Hooks -> Array \cup {NoArray}]
    BY <1>1 DEF IInv, TypeInv
  <2> QED
    BY <2>1, <2>2 DEF TypeInv
<1>4. LinkInv'
  BY <1>1, <1>2 DEF LinkInv
<1>5. RunInv' /\ \A i \in DOMAIN stack' : Contract(stack[i])'
  BY <1>1 DEF RunInv
<1> QED
  BY <1>3, <1>4, <1>5 DEF IInv

\* A step that leaves the arrays alone keeps what is known of them.
LEMMA LinksStay ==
    ASSUME IInv, UNCHANGED <<link, registry, pool>>, stack' \in Seq(Frame)
    PROVE  TypeInv' /\ LinkInv'
PROOF
  BY DEF IInv, TypeInv, LinkInv

LEMMA RunHookStep ==
    ASSUME IInv, NEW h \in Hooks, RunHook(h)
    PROVE  IInv'
PROOF
<1> DEFINE f == [hook |-> h, rvs |-> <<>>,
                 cap  |-> IF link[h] = NoArray THEN 0 ELSE link[h].cap,
                 ret  |-> IF link[h] = NoArray THEN Default(h) ELSE Running]
<1>1. stack' = Append(stack, f) /\ UNCHANGED <<link, registry, pool>> /\ CanCall
  BY DEF RunHook
<1>2. stack \in Seq(Frame) /\ Len(stack) \in Nat /\ DOMAIN stack = 1..Len(stack)
  BY DEF IInv, TypeInv
<1>3. Default(h) \in {OK, DECLINED} /\ Default(h) \in Values /\ Default(h) \in Pass(h)
  BY DEF Default, Pass, Values
<1>4. f \in Frame
  <2>1. f.cap \in Nat
    BY DEF IInv, TypeInv, Array, ArrayOf
  <2>2. <<>> \in Seq(Values)
    OBVIOUS
  <2> QED
    BY <1>3, <2>1, <2>2 DEF Frame
<1>5. /\ stack' \in Seq(Frame) /\ Len(stack') = Len(stack) + 1
      /\ DOMAIN stack' = 1..Len(stack) + 1
      /\ stack'[Len(stack) + 1] = f
      /\ \A i \in 1..Len(stack) : stack'[i] = stack[i]
  BY <1>1, <1>2, <1>4
<1>6. TypeInv' /\ LinkInv'
  BY <1>1, <1>5, LinksStay
<1>7. \A i \in 1..Len(stack) : stack[i].ret = Running
  BY <1>1, <1>2 DEF CanCall, Top, IInv, RunInv
<1>8. f.ret \in {Running, Astray} => Unfinished(f)
  <2> SUFFICES ASSUME f.ret \in {Running, Astray} PROVE Unfinished(f)
    OBVIOUS
  <2>1. link[h] # NoArray /\ f.ret = Running
    BY <1>3, ValuesAssumption
  <2>2. Len(link[h].fns) \in 1..link[h].cap /\ link[h].cap \in Nat
    BY <2>1 DEF IInv, TypeInv, LinkInv, Array, ArrayOf
  <2>3. f.cap = link[h].cap /\ f.hook = h /\ Len(f.rvs) = 0 /\ DOMAIN f.rvs = {}
    BY <2>1
  <2> HIDE DEF f
  <2> QED
    BY <2>1, <2>2, <2>3, HookAssumption DEF Unfinished
<1>9. RunInv'
  <2>1. \A i \in 1..Len(stack') - 1 : stack'[i].ret = Running
    BY <1>2, <1>5, <1>7
  <2>2. \A i \in 1..Len(stack) : Unfinished(stack[i])
    BY <1>2, <1>7 DEF IInv, RunInv
  <2>3. \A i \in DOMAIN stack' : stack'[i].ret \in {Running, Astray} =>
          Unfinished(stack'[i])
    <3> HIDE DEF f
    <3> QED
      BY <1>2, <1>5, <1>8, <2>2
  <2> QED
    BY <1>1, <2>1, <2>3 DEF RunInv, Unfinished
<1>10. \A i \in DOMAIN stack' : Contract(stack[i])'
  <2>1. \A i \in 1..Len(stack) : Contract(stack[i])'
    BY <1>5, <1>7 DEF Contract
  <2>2. Contract(f)
    <3>1. CASE link[h] = NoArray
      <4>1. Everyone(f) /\ f.ret = Default(f.hook) /\ DOMAIN f.rvs = {}
        BY <3>1 DEF Everyone
      <4> QED
        BY <4>1 DEF Contract
    <3>2. CASE link[h] # NoArray
      BY <3>2 DEF Contract
    <3> QED
      BY <3>1, <3>2
  <2>3. \A i \in DOMAIN stack' : i = Len(stack) + 1 => Contract(stack[i])'
    BY <1>1, <1>5, <2>2 DEF Contract, Everyone
  <2> QED
    BY <1>2, <1>5, <2>1, <2>3
<1> QED
  BY <1>6, <1>9, <1>10 DEF IInv

\* The innermost run gets a value, and goes on or ends.
LEMMA ReturnStep ==
    ASSUME IInv, NEW rv \in Values, Return(rv)
    PROVE  IInv'
PROOF
<1> DEFINE t == Len(stack)
           h == Top.hook
           m == Len(Top.rvs)
           end == IF Stops(h, rv) THEN rv ELSE After(m + 1)
           f == [Top EXCEPT !.rvs = Append(Top.rvs, rv), !.ret = end]
<1>1. /\ stack # <<>> /\ Top.ret = Running
      /\ stack' = [stack EXCEPT ![t].rvs = Append(Top.rvs, rv), ![t].ret = end]
      /\ UNCHANGED <<link, registry, pool>>
  BY DEF Return
<1>2. stack \in Seq(Frame) /\ t \in Nat /\ t >= 1 /\ DOMAIN stack = 1..t
  BY <1>1 DEF IInv, TypeInv
<1>3. /\ Top = stack[t] /\ Top \in Frame /\ h \in Hooks
      /\ Top.rvs \in Seq(Values) /\ m \in Nat /\ Top.cap \in Nat
  <2>1. Top = stack[t]
    BY DEF Top
  <2>2. Top \in Frame
    BY <1>2, <2>1
  <2> QED
    BY <2>1, <2>2 DEF Frame
<1>4. Default(h) \in {OK, DECLINED} /\ Default(h) \in Values
  BY DEF Default, Values
<1>5. end \in Values \cup {Running, Astray}
  BY <1>4 DEF After
<1>6. /\ Append(Top.rvs, rv) \in Seq(Values)
      /\ Len(Append(Top.rvs, rv)) = m + 1
      /\ DOMAIN Append(Top.rvs, rv) = 1..m + 1
      /\ Append(Top.rvs, rv)[m + 1] = rv
      /\ \A n \in 1..m : Append(Top.rvs, rv)[n] = Top.rvs[n]
      /\ DOMAIN Top.rvs = 1..m
  BY <1>3
<1>7. /\ f \in Frame /\ f.hook = h /\ f.cap = Top.cap /\ f.ret = end
      /\ f.rvs = Append(Top.rvs, rv)
  BY <1>3, <1>5, <1>6 DEF Frame
<1>8. /\ stack' \in Seq(Frame) /\ Len(stack') = t /\ DOMAIN stack' = 1..t
      /\ stack'[t] = f
      /\ \A i \in 1..t - 1 : stack'[i] = stack[i]
  <2>1. stack' = [stack EXCEPT ![t] = f]
    BY <1>1, <1>2, <1>3
  <2> QED
    BY <1>2, <1>7, <2>1
<1>9. TypeInv' /\ LinkInv'
  BY <1>1, <1>8, LinksStay
<1>10. \A i \in 1..t - 1 : stack[i].ret = Running
  BY DEF IInv, RunInv
<1>11. /\ link[h] # NoArray /\ m < Len(link[h].fns) /\ m < Top.cap
       /\ h \notin Void => \A n \in 1..m : Top.rvs[n] \in Pass(h)
  BY <1>1, <1>2, <1>3, <1>6 DEF IInv, RunInv, Unfinished
<1>12. Len(link[h].fns) \in Nat
  BY <1>3, <1>11 DEF IInv, TypeInv, Array, ArrayOf
<1>13. h \notin Void => (Stops(h, rv) <=> rv \notin Pass(h))
  BY <1>3, HookAssumption DEF Stops, Pass, Hooks, RunAll, RunFirst, Void
<1>14. h \in Void => ~Stops(h, rv)
  BY DEF Stops, RunAll, RunFirst, Void
<1>15. end \in {Running, Astray} =>
          /\ ~Stops(h, rv) /\ m + 1 < Len(link[h].fns)
          /\ end = Running => m + 1 < Top.cap
          /\ end = Astray => m + 1 = Top.cap
  <2> SUFFICES ASSUME end \in {Running, Astray}
               PROVE  /\ ~Stops(h, rv) /\ m + 1 < Len(link[h].fns)
                      /\ end = Running => m + 1 < Top.cap
                      /\ end = Astray => m + 1 = Top.cap
    OBVIOUS
  <2>1. ~Stops(h, rv)
    BY ValuesAssumption
  <2>2. end = After(m + 1) /\ Running # Astray /\ Default(h) \notin {Running, Astray}
    BY <1>4, <2>1, ValuesAssumption, HookAssumption
  <2> HIDE DEF end, m
  <2> QED
    BY <1>3, <1>11, <1>12, <2>1, <2>2 DEF After
<1>15a. ~Stops(h, rv) /\ end \notin {Running, Astray} =>
           end = Default(h) /\ m + 1 = Len(link[h].fns)
  BY <1>3, <1>11, <1>12 DEF After
<1> HIDE DEF end
<1>16. RunInv'
  <2>1. \A i \in 1..Len(stack') - 1 : stack'[i].ret = Running
    BY <1>2, <1>8, <1>10
  <2>2. \A i \in 1..t - 1 : Unfinished(stack'[i])
    BY <1>2, <1>8, <1>10 DEF IInv, RunInv
  <2>3. f.ret \in {Running, Astray} => Unfinished(f)
    <3> SUFFICES ASSUME end \in {Running, Astray} PROVE Unfinished(f)
      BY <1>7
    <3>1. h \notin Void => \A n \in 1..m + 1 : f.rvs[n] \in Pass(h)
      BY <1>3, <1>6, <1>7, <1>11, <1>13, <1>15
    <3> HIDE DEF f
    <3> QED
      BY <1>6, <1>7, <1>11, <1>15, <3>1 DEF Unfinished
  <2>4. \A i \in DOMAIN stack' : stack'[i] = f \/ i \in 1..t - 1
    <3> HIDE DEF f
    <3> QED
      BY <1>2, <1>8
  <2>5. \A i \in DOMAIN stack' : stack'[i].ret \in {Running, Astray} =>
          Unfinished(stack'[i])
    <3> HIDE DEF f
    <3> QED
      BY <2>2, <2>3, <2>4
  <2> QED
    BY <1>1, <2>1, <2>5 DEF RunInv, Unfinished
<1>17. \A i \in DOMAIN stack' : Contract(stack[i])'
  <2>1. \A i \in 1..t - 1 : Contract(stack[i])'
    BY <1>8, <1>10 DEF Contract
  <2>2. Contract(f)
    <3> SUFFICES ASSUME end \notin {Running, Astray}
                 PROVE  Contract(f)
      BY <1>7 DEF Contract
    <3>1. CASE Stops(h, rv)
      <4>1. h \notin Void /\ rv \notin Pass(h) /\ f.ret = rv
        BY <1>7, <1>13, <1>14, <3>1 DEF end
      <4>2. f.rvs # <<>> /\ f.rvs[Len(f.rvs)] = rv /\ Len(f.rvs) = m + 1
        BY <1>3, <1>6, <1>7
      <4>3. \A n \in 1..Len(f.rvs) - 1 : f.rvs[n] \in Pass(h)
        BY <1>3, <1>6, <1>7, <1>11, <4>1, <4>2
      <4> QED
        BY <1>7, <4>1, <4>2, <4>3 DEF Contract
    <3>2. CASE ~Stops(h, rv)
      <4>1. m + 1 = Len(link[h].fns) /\ f.ret = Default(h)
        BY <1>7, <1>15a, <3>2
      <4>2. Everyone(f)
        BY <1>6, <1>7, <4>1 DEF Everyone
      <4>3. h \notin Void => \A n \in DOMAIN f.rvs : f.rvs[n] \in Pass(h)
        BY <1>3, <1>6, <1>7, <1>11, <1>13, <3>2
      <4> QED
        BY <1>7, <4>1, <4>2, <4>3 DEF Contract
    <3> QED
      BY <3>1, <3>2
  <2>3. \A i \in DOMAIN stack' : i = t => Contract(stack[i])'
    <3> HIDE DEF f
    <3>1. stack'[t] = f /\ link' = link
      BY <1>1, <1>8
    <3> QED
      BY <2>2, <3>1 DEF Contract, Everyone
  <2> QED
    BY <1>2, <1>8, <2>1, <2>3
<1> QED
  BY <1>9, <1>16, <1>17 DEF IInv

LEMMA LeaveStep ==
    ASSUME IInv, Leave
    PROVE  IInv'
PROOF
<1>1. /\ stack # <<>>
      /\ stack' = SubSeq(stack, 1, Len(stack) - 1)
      /\ UNCHANGED <<link, registry, pool>>
  BY DEF Leave
<1>2. /\ stack \in Seq(Frame) /\ Len(stack) \in Nat /\ Len(stack) >= 1
      /\ DOMAIN stack = 1..Len(stack)
  BY <1>1 DEF IInv, TypeInv
<1>3. /\ stack' \in Seq(Frame) /\ Len(stack') = Len(stack) - 1
      /\ DOMAIN stack' = 1..Len(stack) - 1
      /\ \A i \in 1..Len(stack) - 1 : stack'[i] = stack[i]
  BY <1>1, <1>2
<1>4. TypeInv' /\ LinkInv'
  BY <1>1, <1>3, LinksStay
<1>5. RunInv'
  BY <1>1, <1>2, <1>3 DEF IInv, RunInv, Unfinished
<1>6. \A i \in DOMAIN stack' : Contract(stack[i])'
  BY <1>1, <1>2, <1>3 DEF IInv, Contract, Everyone
<1> QED
  BY <1>4, <1>5, <1>6 DEF IInv

-----------------------------------------------------------------------------
(* The invariant, and what it says of the hooks.                           *)

LEMMA InitIInv == Init => IInv
PROOF
<1> SUFFICES ASSUME HookInit PROVE IInv
  BY DEF Init
<1>1. /\ link = [h \in Hooks |-> NoArray] /\ registry = <<>>
      /\ pool = 0 /\ stack = <<>>
  BY DEF HookInit
<1>2. TypeInv
  <2>1. registry \in Seq(Hooks) /\ stack \in Seq(Frame)
    BY <1>1
  <2>2. link \in [Hooks -> Array \cup {NoArray}]
    BY <1>1
  <2> QED
    BY <1>1, <2>1, <2>2 DEF TypeInv
<1>3. LinkInv
  BY <1>1 DEF LinkInv
<1>4. RunInv /\ \A i \in DOMAIN stack : Contract(stack[i])
  BY <1>1 DEF RunInv
<1> QED
  BY <1>2, <1>3, <1>4 DEF IInv

LEMMA StepIInv == IInv /\ [Next]_vars => IInv'
PROOF
<1> SUFFICES ASSUME IInv, [Next]_vars PROVE IInv'
  OBVIOUS
<1>1. CASE UNCHANGED hookVars
  BY <1>1 DEF hookVars, IInv, TypeInv, LinkInv, RunInv, Unfinished, Contract, Everyone
<1>2. CASE ~UNCHANGED hookVars
  <2>1. Next
    BY <1>2 DEF vars
  <2>2. HookMove
    BY <1>2, <2>1, ServerMoves
  <2> QED
    BY <1>2, <2>2, AddHookStep, SortAllStep, RestartStep, RunHookStep,
       ReturnStep, LeaveStep DEF HookMove
<1> QED
  BY <1>1, <1>2

\* The invariant holds of every behaviour of the server.
LEMMA Invariance == Spec => []IInv
PROOF
  BY InitIInv, StepIInv, PTL DEF Spec

\* apr_hook_sort_all and apr_hook_deregister_all reach every array there is,
\* once: no link is left that points into the pool of a configuration that is
\* over (AP_IMPLEMENT_HOOK_BASE and apr_hook_sort_register in hook.c).
THEOREM RegistryWhole == Spec => []LinksOfThisConfiguration
PROOF
<1>1. IInv => LinksOfThisConfiguration
  BY DEF IInv, LinkInv, LinksOfThisConfiguration
<1> QED
  BY <1>1, Invariance, PTL

\* A runner, which reads the number of functions again before each call but
\* not the address of their block, leaves its block in one case only, whatever
\* the functions it calls register, for its own hook included, and run: when it
\* has called all functions that were in the block, and the array has got more.
THEOREM RunnersInBounds == Spec => []ReadInBounds
PROOF
<1>1. IInv => ReadInBounds
  BY DEF IInv, RunInv, Unfinished, ReadInBounds
<1> QED
  BY <1>1, Invariance, PTL

\* A runner returns OK (or DECLINED, for the hooks that take the first answer)
\* only when every function of the hook was called and let it pass; any other
\* value is that of the last function called, which ended the run.
THEOREM RunnersKeepContract == Spec => []RunnerContract
PROOF
<1>1. IInv => RunnerContract
  BY DEF IInv, Contract, Pass, RunnerContract
<1> QED
  BY <1>1, Invariance, PTL

-----------------------------------------------------------------------------
(* The handlers.  Nothing is registered or run while a handler is asked, so  *)
(* the run of the handlers is the innermost, and its functions stay.         *)

Serving == stack # <<>> /\ Top.hook = "handler"

\* The functions that have something to do for the request.
Wanted == {f \in {"helloworld_handler", "choices_select"} :
              IF f = "helloworld_handler"
              THEN req.handler = "helloworld"
              ELSE req.handler = "choices" /\ cfg.choices /\ req.method = "GET"}

\* Only such a function touches the response, and it does not decline.
ServeInv ==
    /\ \A i \in DOMAIN stack : stack[i].hook = "handler" => i = Len(stack)
    /\ ~Serving => touched = {}
    /\ Serving => /\ touched \subseteq Wanted
                  /\ \A n \in DOMAIN Top.rvs :
                        Top.rvs[n] = DECLINED => link["handler"].fns[n] \notin Wanted

\* What Append does, stated once.
LEMMA AppendValue ==
    ASSUME NEW S, NEW s \in Seq(S), NEW x
    PROVE  /\ Len(s) \in Nat /\ DOMAIN s = 1..Len(s)
           /\ Len(Append(s, x)) = Len(s) + 1
           /\ DOMAIN Append(s, x) = 1..Len(s) + 1
           /\ \A n \in DOMAIN s : Append(s, x)[n] = s[n]
           /\ Append(s, x)[Len(s) + 1] = x
PROOF
  OBVIOUS

\* What a return changes: the innermost run has one value more.
LEMMA ReturnEffect ==
    ASSUME IInv, NEW rv, Return(rv)
    PROVE  /\ DOMAIN stack' = DOMAIN stack /\ Len(stack') = Len(stack)
           /\ stack # <<>> /\ stack' # <<>>
           /\ \A i \in DOMAIN stack : stack'[i].hook = stack[i].hook
           /\ Top'.hook = Top.hook
           /\ DOMAIN Top'.rvs = 1..Len(Top.rvs) + 1
           /\ DOMAIN Top.rvs = 1..Len(Top.rvs) /\ Len(Top.rvs) \in Nat
           /\ \A n \in DOMAIN Top.rvs : Top'.rvs[n] = Top.rvs[n]
           /\ Top'.rvs[Len(Top.rvs) + 1] = rv
           /\ UNCHANGED <<link, registry, pool>>
PROOF
<1> DEFINE t == Len(stack)
           rvs == Append(Top.rvs, rv)
           end == IF Stops(Top.hook, rv) THEN rv ELSE After(Len(Top.rvs) + 1)
<1>1. /\ stack # <<>> /\ UNCHANGED <<link, registry, pool>>
      /\ stack' = [stack EXCEPT ![t].rvs = rvs, ![t].ret = end]
  BY DEF Return
<1>2. stack \in Seq(Frame) /\ t \in Nat /\ t >= 1 /\ DOMAIN stack = 1..t
  BY <1>1 DEF IInv, TypeInv
<1>3. Top = stack[t] /\ Top \in Frame
  BY <1>2 DEF Top
<1>4. Top.rvs \in Seq(Values)
  BY <1>3 DEF Frame
<1>5. /\ DOMAIN rvs = 1..Len(Top.rvs) + 1 /\ DOMAIN Top.rvs = 1..Len(Top.rvs)
      /\ Len(Top.rvs) \in Nat
      /\ \A n \in DOMAIN Top.rvs : rvs[n] = Top.rvs[n]
      /\ rvs[Len(Top.rvs) + 1] = rv
  BY <1>4, AppendValue
<1> HIDE DEF rvs, end
<1>6. /\ DOMAIN stack' = 1..t /\ Len(stack') = t
      /\ stack'[t].rvs = rvs /\ stack'[t].hook = stack[t].hook
      /\ \A i \in 1..t - 1 : stack'[i] = stack[i]
  <2>1. stack' = [stack EXCEPT ![t] = [stack[t] EXCEPT !.rvs = rvs, !.ret = end]]
    BY <1>1, <1>2
  <2>2. [stack[t] EXCEPT !.rvs = rvs, !.ret = end].rvs = rvs
    BY <1>3 DEF Frame
  <2>3. [stack[t] EXCEPT !.rvs = rvs, !.ret = end].hook = stack[t].hook
    BY <1>3 DEF Frame
  <2> QED
    BY <1>2, <2>1, <2>2, <2>3
<1>7. Top' = stack'[t] /\ stack' # <<>>
  BY <1>2, <1>6 DEF Top
<1> QED
  BY <1>1, <1>2, <1>3, <1>5, <1>6, <1>7

\* A handler's answer: it touched the response only if it was wanted, and then
\* it has not declined.
LEMMA AnswerStep ==
    ASSUME IInv, ServeInv, Serving, NEW rv, Return(rv), UNCHANGED <<req, cfg>>,
           \/ UNCHANGED touched
           \/ touched' = touched \cup {Called} /\ Called \in Wanted,
           rv = DECLINED => Called \notin Wanted
    PROVE  ServeInv'
PROOF
<1>1. /\ DOMAIN stack' = DOMAIN stack /\ Len(stack') = Len(stack)
      /\ stack # <<>> /\ stack' # <<>>
      /\ \A i \in DOMAIN stack : stack'[i].hook = stack[i].hook
      /\ Top'.hook = Top.hook
      /\ DOMAIN Top'.rvs = 1..Len(Top.rvs) + 1
      /\ DOMAIN Top.rvs = 1..Len(Top.rvs) /\ Len(Top.rvs) \in Nat
      /\ \A n \in DOMAIN Top.rvs : Top'.rvs[n] = Top.rvs[n]
      /\ Top'.rvs[Len(Top.rvs) + 1] = rv
      /\ UNCHANGED link
  BY ReturnEffect
<1>2. Serving' /\ Wanted' = Wanted
  BY <1>1 DEF Serving, Wanted
<1>3. touched' \subseteq Wanted'
  BY <1>2 DEF ServeInv
<1>4. ASSUME NEW n \in DOMAIN Top'.rvs, Top'.rvs[n] = DECLINED
      PROVE  link'["handler"].fns[n] \notin Wanted
  <2>1. CASE n \in DOMAIN Top.rvs
    BY <1>1, <1>4, <2>1 DEF ServeInv
  <2>2. CASE n = Len(Top.rvs) + 1
    <3>1. Called = link["handler"].fns[n]
      BY <2>2 DEF Called, Serving
    <3> QED
      BY <1>1, <1>4, <2>2, <3>1
  <2> QED
    BY <1>1, <2>1, <2>2
<1>5. \A i \in DOMAIN stack' : stack'[i].hook = "handler" => i = Len(stack')
  BY <1>1 DEF ServeInv
<1> QED
  BY <1>2, <1>3, <1>4, <1>5 DEF ServeInv

\* A run starts where no handler is asked, and knows of no answer yet.
LEMMA RunServe ==
    ASSUME IInv, ServeInv, ~Serving, NEW h, RunHook(h), UNCHANGED touched
    PROVE  ServeInv'
PROOF
<1> DEFINE f == [hook |-> h, rvs |-> <<>>,
                 cap  |-> IF link[h] = NoArray THEN 0 ELSE link[h].cap,
                 ret  |-> IF link[h] = NoArray THEN Default(h) ELSE Running]
<1>1. stack' = Append(stack, f)
  BY DEF RunHook
<1>2. stack \in Seq(Frame) /\ f.rvs = <<>>
  BY DEF IInv, TypeInv
<1> HIDE DEF f
<1>3. /\ Len(stack) \in Nat /\ Len(stack') = Len(stack) + 1
      /\ DOMAIN stack = 1..Len(stack) /\ DOMAIN stack' = 1..Len(stack) + 1
      /\ stack'[Len(stack) + 1] = f
      /\ \A i \in DOMAIN stack : stack'[i] = stack[i]
  BY <1>1, <1>2, AppendValue
<1>4. \A i \in DOMAIN stack : stack[i].hook # "handler"
  BY <1>3 DEF ServeInv, Serving, Top
<1>5. Top' = f
  BY <1>3 DEF Top
<1>6. DOMAIN Top'.rvs = {}
  BY <1>2, <1>5
<1> QED
  BY <1>3, <1>4, <1>6 DEF ServeInv

LEMMA ServeStep ==
    ASSUME IInv, ServeInv, [Next]_vars
    PROVE  ServeInv'
PROOF
<1>0. stack \in Seq(Frame) /\ Len(stack) \in Nat /\ DOMAIN stack = 1..Len(stack)
  BY DEF IInv, TypeInv
\* What leaves the run of the handlers alone.
<1>a. ASSUME UNCHANGED <<stack, link, req, cfg, touched>>
      PROVE  ServeInv'
  BY <1>a DEF ServeInv, Serving, Wanted, Top
\* What happens where no run of the handlers is.
<1>b. ASSUME ~Serving, UNCHANGED <<stack, touched>>
      PROVE  ServeInv'
  BY <1>b DEF ServeInv, Serving, Top
<1>c. OtherCode <=> ~Serving
  BY DEF OtherCode, Serving
<1>1. CASE \/ SetChoices \/ (\E ext \in Ext : choices_transform_set(ext))
           \/ ServerRestart \/ Sort
  <2>1. stack = <<>> /\ UNCHANGED <<stack, touched>>
    BY <1>1 DEF SetChoices, choices_transform_set, ServerRestart, Sort, Restart,
         SortAll, hookVars, modVars
  <2> QED
    BY <1>b, <2>1 DEF Serving
<1>2. CASE RegisterHook
  <2>1. HookMove \/ UNCHANGED hookVars
    BY <1>2, ServerMoves DEF Next
  <2>2. UNCHANGED <<stack, touched>> /\ ~Serving
    BY <1>2, <1>c DEF RegisterHook, Register, AddHook, modVars, ap_hook_header_parser,
         ap_hook_pre_config, ap_hook_test_config, ap_hook_post_config,
         ap_hook_open_logs, ap_hook_child_init, ap_hook_handler,
         ap_hook_quick_handler, ap_hook_optional_fn_retrieve
  <2> QED
    BY <1>b, <2>2
<1>3. CASE Run
  <2>1. ~Serving /\ UNCHANGED touched /\ \E h \in Hooks : RunHook(h)
    BY <1>3, <1>c DEF Run, RunOther, modVars, Hooks, RunAll, RunFirst, Void,
         ap_run_header_parser, ap_run_pre_config, ap_run_test_config,
         ap_run_post_config, ap_run_open_logs, ap_run_child_init,
         ap_run_quick_handler, ap_run_optional_fn_retrieve
  <2> QED
    BY <2>1, RunServe
<1>4. CASE Serve
  BY <1>4, <1>c, RunServe DEF Serve, ap_run_handler
<1>5. CASE OtherReturns
  <2>1. PICK rv : Return(rv)
    BY <1>5 DEF OtherReturns
  <2>2. UNCHANGED touched /\ ~Serving
    BY <1>5 DEF OtherReturns, modVars, Serving
  <2>3. /\ DOMAIN stack' = DOMAIN stack /\ Len(stack') = Len(stack)
        /\ \A i \in DOMAIN stack : stack'[i].hook = stack[i].hook
        /\ Top'.hook = Top.hook /\ stack # <<>>
    BY <2>1, ReturnEffect
  <2> QED
    BY <2>2, <2>3 DEF ServeInv, Serving
<1>6. CASE LeaveRun
  <2>1. /\ stack # <<>> /\ stack' = SubSeq(stack, 1, Len(stack) - 1)
        /\ Top.hook = "handler" => touched' = {}
        /\ Top.hook # "handler" => touched' = touched
    BY <1>6 DEF LeaveRun, Leave, modVars
  <2>2. /\ Len(stack) >= 1 /\ Len(stack') = Len(stack) - 1
        /\ DOMAIN stack' = 1..Len(stack) - 1
        /\ \A i \in DOMAIN stack' : stack'[i] = stack[i] /\ i \in DOMAIN stack
    BY <1>0, <2>1
  <2>3. \A i \in DOMAIN stack' : stack'[i].hook # "handler"
    BY <1>0, <2>2 DEF ServeInv
  <2>4. ~Serving'
    BY <1>0, <2>2, <2>3 DEF Serving, Top
  <2>5. touched' = {}
    BY <2>1 DEF ServeInv, Serving
  <2> QED
    BY <2>3, <2>4, <2>5 DEF ServeInv
<1>7. CASE helloworld_handler
  <2>1. /\ Serving /\ Called = "helloworld_handler" /\ UNCHANGED <<req, cfg>>
        /\ Called \in Wanted <=> req.handler = "helloworld"
    BY <1>7 DEF helloworld_handler, InFunction, Serving, Wanted
  <2>2. CASE req.handler # "helloworld" /\ Return(DECLINED) /\ UNCHANGED touched
    BY <2>1, <2>2, AnswerStep
  <2>3. CASE /\ req.handler = "helloworld" /\ Return("HTTP_METHOD_NOT_ALLOWED")
             /\ UNCHANGED touched
    BY <2>1, <2>3, AnswerStep, ValuesAssumption
  <2>4. CASE /\ req.handler = "helloworld" /\ Touch("helloworld_handler")
             /\ check_postdata
    <3>1. touched' = touched \cup {Called} /\ Called \in Wanted
      BY <2>1, <2>4 DEF Touch
    <3>2. CASE Return(OK)
      BY <2>1, <3>1, <3>2, AnswerStep, HookAssumption
    <3>3. CASE UNCHANGED hookVars
      BY <2>1, <3>1, <3>3 DEF hookVars, ServeInv, Serving, Wanted, Top
    <3> QED
      BY <2>4, <3>2, <3>3 DEF check_postdata
  <2> QED
    BY <1>7, <2>2, <2>3, <2>4 DEF helloworld_handler
<1>8. CASE GetBrigade
  BY <1>8, <1>a DEF GetBrigade, hookVars
<1>9. CASE Report
  <2>1. Return(OK) /\ UNCHANGED <<cfg, req, touched>>
    BY <1>9 DEF Report
  <2>2. CASE Serving
    BY <2>1, <2>2, AnswerStep, HookAssumption
  <2>3. CASE ~Serving
    <3>1. /\ DOMAIN stack' = DOMAIN stack /\ Len(stack') = Len(stack)
          /\ \A i \in DOMAIN stack : stack'[i].hook = stack[i].hook
          /\ Top'.hook = Top.hook /\ stack # <<>>
      BY <2>1, ReturnEffect
    <3> QED
      BY <2>1, <2>3, <3>1 DEF ServeInv, Serving
  <2> QED
    BY <2>2, <2>3
<1>10. CASE choices_select
  <2>1. /\ Serving /\ Called = "choices_select" /\ UNCHANGED <<req, cfg>>
        /\ Called \in Wanted <=>
              req.handler = "choices" /\ cfg.choices /\ req.method = "GET"
    BY <1>10 DEF choices_select, InFunction, Serving, Wanted
  <2>2. CASE /\ Called \notin Wanted /\ Return(DECLINED) /\ UNCHANGED touched
    BY <2>1, <2>2, AnswerStep
  <2>3. CASE /\ Called \in Wanted /\ UNCHANGED touched
             /\ Return("HTTP_INTERNAL_SERVER_ERROR")
    BY <2>1, <2>3, AnswerStep, ValuesAssumption
  <2>4. CASE /\ Called \in Wanted /\ Touch("choices_select")
             /\ Return(OK) \/ Return("HTTP_NOT_FOUND")
    <3>1. touched' = touched \cup {Called}
      BY <2>1, <2>4 DEF Touch
    <3> QED
      BY <2>1, <2>4, <3>1, AnswerStep, ValuesAssumption, HookAssumption
  <2> QED
    BY <1>10, <2>1, <2>2, <2>3, <2>4 DEF choices_select
<1>11. CASE GoneAstray \/ UNCHANGED vars
  BY <1>11, <1>a DEF GoneAstray, vars, hookVars, modVars
<1> QED
  BY <1>1, <1>2, <1>3, <1>4, <1>5, <1>6, <1>7, <1>8, <1>9, <1>10, <1>11 DEF Next

\* helloworld_handler and choices_select have not touched the response of a
\* request they decline, and no request is answered by both.
THEOREM DecliningIsClean == Spec => []DeclinedUntouched
PROOF
<1>1. Init => ServeInv
  BY DEF Init, HookInit, ServeInv, Serving
<1>2. IInv /\ ServeInv /\ [Next]_vars => ServeInv'
  BY ServeStep
<1>3. ServeInv => DeclinedUntouched
  <2> SUFFICES ASSUME ServeInv, NEW i \in DOMAIN stack, stack[i].hook = "handler"
               PROVE  /\ \A n \in DOMAIN stack[i].rvs :
                            stack[i].rvs[n] = DECLINED =>
                               link["handler"].fns[n] \notin touched
                      /\ Cardinality(touched) <= 1
    BY DEF DeclinedUntouched
  <2>1. stack[i] = Top /\ Serving
    BY DEF ServeInv, Serving, Top
  <2>2. touched \subseteq Wanted
    BY <2>1 DEF ServeInv
  <2>3. touched = {} \/ \E f \in touched : touched = {f}
    BY <2>2 DEF Wanted
  <2>4. Cardinality(touched) <= 1
    <3>1. CASE touched = {}
      <4>1. Cardinality(touched) = 0
        BY <3>1, FS_EmptySet
      <4> QED
        BY <4>1
    <3>2. CASE \E f \in touched : touched = {f}
      <4>1. Cardinality(touched) = 1
        BY <3>2, FS_Singleton
      <4> QED
        BY <4>1
    <3> QED
      BY <2>3, <3>1, <3>2
  <2> QED
    BY <2>1, <2>2, <2>4 DEF ServeInv
<1> QED
  BY <1>1, <1>2, <1>3, Invariance, PTL DEF Spec

-----------------------------------------------------------------------------
(* The body of a request.                                                    *)

BodyInv ==
    /\ sent \in Nat /\ count \in Nat
    /\ ~broken => count = sent
    /\ failed => broken
    /\ report = "error" => broken

\* The buckets of one kind in a brigade are so many.
LEMMA BucketCount ==
    ASSUME NEW b \in Brigades, NEW kind, NEW S \in SUBSET DOMAIN b
    PROVE  Cardinality(Of(kind, b, S)) \in Nat
PROOF
<1>1. b \in Seq({"data", "meta", "bad", "eos"})
  BY BodyAssumption
<1>2. IsFiniteSet(1..Len(b)) /\ DOMAIN b = 1..Len(b)
  BY <1>1, FS_Interval
<1>3. Of(kind, b, S) \subseteq 1..Len(b)
  BY <1>2 DEF Of
<1> QED
  BY <1>2, <1>3, FS_Subset, FS_CardinalityType

\* Passing over metadata loses no data, and a failed read is behind each status
\* other than success and each length that was not read.
LEMMA BodyStep ==
    ASSUME BodyInv, [Next]_vars
    PROVE  BodyInv'
PROOF
<1>1. CASE GetBrigade
  <2>1. CASE failed' = TRUE /\ broken' = TRUE /\ UNCHANGED <<count, sent, report>>
    BY <2>1 DEF BodyInv
  <2>2. ASSUME NEW b \in Brigades, NEW left \in {0, BUFLEN},
               sent' = sent + Cardinality(Of("data", b, Before(b))),
               failed' = \E i \in Of("bad", b, Read(b)) : \A j \in Read(b) : j <= i,
               broken' = (broken \/ Of("bad", b, Before(b)) # {}),
               count' = count + Cardinality(Of("data", b, Read(b)))
                              + left * Cardinality(Of("bad", b, Read(b))),
               UNCHANGED report
        PROVE  BodyInv'
    <3>1. Before(b) \in SUBSET DOMAIN b /\ Read(b) \in SUBSET DOMAIN b
      BY DEF Before, Read
    <3>2. /\ Of("data", b, Read(b)) = Of("data", b, Before(b))
          /\ Of("bad", b, Read(b)) = Of("bad", b, Before(b))
      BY DEF Of, Read
    <3>3. /\ Cardinality(Of("data", b, Before(b))) \in Nat
          /\ Cardinality(Of("bad", b, Before(b))) \in Nat
      BY <3>1, BucketCount
    <3>4. left \in Nat /\ sent \in Nat /\ count \in Nat
      BY BodyAssumption DEF BodyInv
    <3>5. left * Cardinality(Of("bad", b, Before(b))) \in Nat
      <4>1. ASSUME NEW m \in Nat, NEW n \in Nat PROVE m * n \in Nat
        OBVIOUS
      <4> QED
        BY <3>3, <3>4, <4>1
    <3>6. sent' \in Nat /\ count' \in Nat
      <4>1. ASSUME NEW k \in Nat, NEW m \in Nat, NEW n \in Nat
            PROVE  k + m \in Nat /\ k + m + n \in Nat
        OBVIOUS
      <4>2. sent' \in Nat
        BY <2>2, <3>3, <3>4, <4>1
      <4>3. count' \in Nat
        BY <2>2, <3>2, <3>3, <3>4, <3>5, <4>1, Zenon
      <4> QED
        BY <4>2, <4>3
    <3>7. ~broken' => count' = sent'
      <4> SUFFICES ASSUME ~broken' PROVE count' = sent'
        OBVIOUS
      <4>1. ~broken /\ Of("bad", b, Before(b)) = {}
        BY <2>2
      <4>2. left * Cardinality(Of("bad", b, Before(b))) = 0
        <5>1. Cardinality(Of("bad", b, Before(b))) = 0
          BY <4>1, FS_EmptySet
        <5>2. ASSUME NEW m \in Nat PROVE m * 0 = 0
          OBVIOUS
        <5> QED
          BY <3>4, <5>1, <5>2
      <4>3. count = sent
        BY <4>1 DEF BodyInv
      <4>4. count' = count + Cardinality(Of("data", b, Before(b)))
        BY <2>2, <3>2, <3>3, <3>4, <4>2
      <4> QED
        BY <2>2, <4>3, <4>4
    <3>8. failed' => broken'
      BY <2>2, <3>2
    <3>9. report' = "error" => broken'
      BY <2>2 DEF BodyInv
    <3> QED
      BY <3>6, <3>7, <3>8, <3>9 DEF BodyInv
  <2> QED
    BY <1>1, <2>1, <2>2 DEF GetBrigade
<1>2. CASE Report
  BY <1>2 DEF Report, BodyInv
<1>3. CASE helloworld_handler
  BY <1>3 DEF helloworld_handler, check_postdata, BodyInv
<1>4. CASE LeaveRun
  BY <1>4 DEF LeaveRun, modVars, BodyInv
<1>5. CASE UNCHANGED <<failed, count, sent, broken, report>>
  BY <1>5 DEF BodyInv
<1>6. CASE \/ SetChoices \/ (\E ext \in Ext : choices_transform_set(ext))
           \/ ServerRestart \/ RegisterHook \/ Sort \/ Run \/ Serve
           \/ OtherReturns \/ choices_select \/ GoneAstray \/ UNCHANGED vars
  BY <1>5, <1>6 DEF GoneAstray, SetChoices, choices_transform_set, ServerRestart, RegisterHook,
     Sort, Run, Serve, OtherReturns, choices_select, vars, modVars
<1> QED
  BY <1>1, <1>2, <1>3, <1>4, <1>6 DEF Next

\* check_postdata reports as the length of a body what was delivered of it,
\* unless a bucket could not be read, and an error only when one could not.
THEOREM LengthReported == Spec => []CountExact
PROOF
<1>1. Init => BodyInv
  BY DEF Init, BodyInv
<1>2. BodyInv /\ [Next]_vars => BodyInv'
  BY BodyStep
<1>3. BodyInv => CountExact
  BY DEF BodyInv, CountExact
<1> QED
  BY <1>1, <1>2, <1>3, PTL DEF Spec
===============================================================================
