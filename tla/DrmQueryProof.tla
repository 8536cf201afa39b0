---------------------------- MODULE DrmQueryProof ----------------------------
(***************************************************************************)
(* Proofs about DrmQuery, for any cards, modes and numbers of plugs.       *)
(***************************************************************************)
EXTENDS DrmQuery, TLAPS

Id == Nat \cup {None}
Connector == [modes : ModeLists, props : Nat, encoders : Nat, encoder_id : Id]
Known == [modes : Seq(Nat \X Nat), props : Nat, encoders : Nat, encoder_id : Id]
Buffer == [base : Id \cup {MAP_FAILED}, len : Nat, w : Nat, h : Nat]
Dumb == [size : Nat, handle : Id, offset : Id, fb_id : Id, width : Nat, height : Nat]
Slots == 1..RES_BUF

\* Inside the loop over the slots, and there at a slot with a connector.
InLoop == dpc \in {"connector", "modes", "create", "addfb", "map", "mmap", "setcrtc"}
AtSlot == InLoop /\ dpc # "connector"

DrmTypeOK ==
    /\ dpc \in {"open", "resources", "connector", "modes", "create", "addfb", "map",
                "mmap", "setcrtc", "drop", "draw", "overrun", "end"}
    /\ connectors \in Seq(Connector) /\ others \in Nat
    /\ res \in [connectors : Nat, others : Nat]
    /\ i \in Nat /\ plugs \in Nat
    /\ conn \in Known /\ mode \in Nat \X Nat
    /\ dumb \in Dumb
    /\ fb \in [Slots -> Buffer]
    /\ first_valid_connector \in Int
    /\ master \in BOOLEAN

\* What is in res is never more than the card has; the slots hold connectors of
\* the card, and the loop stays inside them.
ResInv ==
    /\ res.connectors <= Len(connectors) /\ res.others <= others
    /\ \A s \in Slots : res_conn_buf[s] \in 1..Len(connectors) \cup {None}
    /\ InLoop => res.connectors <= RES_BUF
    /\ AtSlot => i <= res.connectors /\ res_conn_buf[i] # None

Mapped(s) == fb[s].base \notin {None, MAP_FAILED} /\ fb[s].w * fb[s].h \in 1..fb[s].len

\* The slots before i were done, those after it were not touched.
SlotInv ==
    /\ i > 0
    /\ \A s \in Slots : s > i \/ (s = i /\ dpc # "setcrtc") => fb[s].base = None
    /\ dpc = "setcrtc" => Mapped(i)
    /\ \A s \in crtcs : s < i
    /\ IF first_valid_connector = -1
       THEN \A s \in Slots : s < i => fb[s].base = None
       ELSE /\ first_valid_connector \in Slots /\ first_valid_connector < i
            /\ Mapped(first_valid_connector)
            /\ \A s \in 1..first_valid_connector-1 : fb[s].base = None

DrmInv ==
    /\ DrmTypeOK
    /\ ResInv
    /\ \A s \in crtcs : s \in Slots /\ Mapped(s)
    /\ dpc \in {"open", "resources"} =>
          /\ crtcs = {} /\ first_valid_connector = -1
          /\ \A s \in Slots : fb[s].base = None
    /\ dumb.size > 0 => dumb.width * dumb.height \in 1..dumb.size
    /\ InLoop \/ dpc \in {"drop", "draw"} => SlotInv
    /\ dpc = "draw" => first_valid_connector # -1
    /\ dpc = "overrun" =>
          \/ Len(connectors) > RES_BUF \/ others > RES_BUF
          \/ Len(conn.modes) > CONN_BUF
          \/ conn.props > CONN_BUF \/ conn.encoders > 2 * CONN_BUF

\* What a connector of the card is to main.
LEMMA ConnectorKnown == Connector \subseteq Known /\ NoConn \in Known
<1>1. \A m \in ModeLists : m \in Seq(Nat \X Nat)
  BY DrmAssumption
<1>2. NoConn \in Known
  BY DEF NoConn, Known, Id
<1> QED
  BY <1>1, <1>2 DEF Connector, Known

LEMMA DrmInitInv == DrmInit => DrmInv
<1> SUFFICES ASSUME DrmInit PROVE DrmInv
  OBVIOUS
<1>1. /\ dpc = "open" /\ crtcs = {} /\ first_valid_connector = -1
      /\ res = NoRes /\ res_conn_buf = [s \in Slots |-> None] /\ i = 0
      /\ conn = NoConn /\ mode = <<0, 0>> /\ dumb = NoDumb /\ master = FALSE
      /\ fb = [s \in Slots |-> NoFb] /\ plugs = 0
  BY DEF DrmInit, DrmStart, Slots
<1>2. PICK c \in Cards : connectors = c.connectors /\ others = c.others
  BY DEF DrmInit
<1>3. connectors \in Seq(Connector) /\ others \in Nat /\ Len(connectors) \in Nat
  <2>1. Connector = [modes : ModeLists, props : Nat, encoders : Nat,
                     encoder_id : Nat \cup {None}]
    BY DEF Connector, Id
  <2>2. c.connectors \in Seq(Connector) /\ c.others \in Nat
    BY <2>1, DrmAssumption
  <2> QED
    BY <1>2, <2>2
<1>4. NoDumb \in Dumb /\ ~(NoDumb.size > 0)
  BY DEF NoDumb, Dumb, Id
<1>5. NoFb \in Buffer /\ NoFb.base = None
  BY DEF NoFb, Buffer, Id
<1>6. NoRes \in [connectors : Nat, others : Nat] /\ NoRes.connectors = 0 /\ NoRes.others = 0
  BY DEF NoRes
<1>7. DrmTypeOK
  <2>1. fb \in [Slots -> Buffer] /\ dumb \in Dumb /\ conn \in Known
    BY <1>1, <1>4, <1>5, ConnectorKnown
  <2>2. res \in [connectors : Nat, others : Nat] /\ mode \in Nat \X Nat
    BY <1>1, <1>6
  <2>3. i = 0 /\ plugs = 0 /\ first_valid_connector = -1 /\ dpc = "open"
    BY <1>1
  <2>4. master \in BOOLEAN
    BY <1>1
  <2> QED
    BY <1>3, <2>1, <2>2, <2>3, <2>4 DEF DrmTypeOK
<1>8. ResInv
  BY <1>1, <1>3, <1>6 DEF ResInv, InLoop, AtSlot
<1> QED
  BY <1>1, <1>4, <1>5, <1>7, <1>8 DEF DrmInv, InLoop, AtSlot

\* A connector comes or goes: the number of connectors does not change.
LEMMA PlugStep == ASSUME DrmInv, Plug PROVE DrmInv'
<1>1. /\ UNCHANGED <<dpc, others, res, res_conn_buf, i, conn, mode, dumb, fb,
                     first_valid_connector, crtcs, master>>
      /\ dpc # "overrun"
  BY DEF Plug, query, setup, result
<1>2. connectors' \in Seq(Connector) /\ Len(connectors') = Len(connectors) /\ plugs' \in Nat
  <2>1. connectors \in Seq(Connector) /\ plugs' \in Nat
    BY DEF DrmInv, DrmTypeOK, Plug
  <2>2. PICK c \in DOMAIN connectors : \E m \in ModeLists :
           connectors' = [connectors EXCEPT ![c].modes = m]
    BY DEF Plug
  <2>3. PICK m \in ModeLists : connectors' = [connectors EXCEPT ![c].modes = m]
    BY <2>2
  <2>4. [connectors[c] EXCEPT !.modes = m] \in Connector
    <3>1. connectors[c] \in Connector
      BY <2>1
    <3> QED
      BY <3>1 DEF Connector
  <2>5. connectors' = [connectors EXCEPT ![c] = [connectors[c] EXCEPT !.modes = m]]
    BY <2>3
  <2> QED
    BY <2>1, <2>4, <2>5
<1>3. SlotInv => SlotInv'
  BY <1>1 DEF SlotInv, Mapped
<1>4. DrmTypeOK'
  BY <1>1, <1>2 DEF DrmInv, DrmTypeOK
<1>5. ResInv'
  BY <1>1, <1>2 DEF DrmInv, ResInv, InLoop, AtSlot
<1> QED
  BY <1>1, <1>3, <1>4, <1>5 DEF DrmInv, InLoop, Mapped

LEMMA OpenStep == ASSUME DrmInv, Open PROVE DrmInv'
<1>1. /\ dpc = "open" /\ dpc' \in {"end", "resources"} /\ master' \in BOOLEAN
      /\ res' \in {res, NoRes, Counts}
      /\ UNCHANGED <<res_conn_buf, i, conn, mode, dumb, fb, first_valid_connector, crtcs,
                     connectors, others, plugs>>
  BY DEF Open, return, setup, result, kernel
<1>2. connectors \in Seq(Connector) /\ others \in Nat /\ Len(connectors) \in Nat
  BY DEF DrmInv, DrmTypeOK
<1>3. /\ res' \in [connectors : Nat, others : Nat]
      /\ res'.connectors <= Len(connectors) /\ res'.others <= others
  <2>1. CASE res' = res
    BY <2>1 DEF DrmInv, DrmTypeOK, ResInv
  <2>2. CASE res' = NoRes \/ res' = Counts
    BY <1>2, <2>2 DEF NoRes, Counts
  <2> QED
    BY <1>1, <2>1, <2>2
<1>4. ResInv'
  BY <1>1, <1>3 DEF DrmInv, ResInv, InLoop, AtSlot
<1> QED
  BY <1>1, <1>3, <1>4 DEF DrmInv, DrmTypeOK, InLoop, Mapped

\* What the first call counted bounds what the second one copies.
LEMMA GetResourcesStep == ASSUME DrmInv, GetResources PROVE DrmInv'
<1>1. /\ dpc = "resources"
      /\ UNCHANGED <<connectors, others, plugs, crtcs, conn, mode, dumb, master, fb,
                     first_valid_connector>>
      /\ res' \in {res, Counts}
      /\ res_conn_buf' \in {res_conn_buf, Packed(Len(connectors))}
  BY DEF GetResources, setup, result, kernel
<1>2. \/ dpc' = "overrun" /\ i' = i /\ (res'.connectors > RES_BUF \/ res'.others > RES_BUF)
      \/ dpc' = "connector" /\ i' = 1 /\ ~(res'.connectors > RES_BUF)
  BY DEF GetResources
<1>3. /\ connectors \in Seq(Connector) /\ others \in Nat /\ Len(connectors) \in Nat
      /\ crtcs = {} /\ first_valid_connector = -1 /\ \A s \in Slots : fb[s].base = None
      /\ RES_BUF \in Nat
  BY <1>1, DrmAssumption DEF DrmInv, DrmTypeOK
<1>4. /\ res' \in [connectors : Nat, others : Nat]
      /\ res'.connectors <= Len(connectors) /\ res'.others <= others
  <2>1. CASE res' = res
    BY <2>1 DEF DrmInv, DrmTypeOK, ResInv
  <2>2. CASE res' = Counts
    BY <1>3, <2>2 DEF Counts
  <2> QED
    BY <1>1, <2>1, <2>2
<1>5. \A s \in Slots : res_conn_buf'[s] \in 1..Len(connectors) \cup {None}
  <2>1. \A s \in Slots : Packed(Len(connectors))[s] \in 1..Len(connectors) \cup {None}
    BY <1>3 DEF Packed, Slots
  <2> QED
    BY <1>1, <2>1 DEF DrmInv, ResInv
<1>6. DrmTypeOK'
  BY <1>1, <1>2, <1>4 DEF DrmInv, DrmTypeOK
<1>7. ResInv'
  BY <1>1, <1>2, <1>3, <1>4, <1>5 DEF ResInv, InLoop, AtSlot
<1>8. dpc' = "connector" => SlotInv'
  BY <1>1, <1>2, <1>3 DEF SlotInv
<1>9. dpc' = "overrun" => Len(connectors') > RES_BUF \/ others' > RES_BUF
  BY <1>1, <1>2, <1>3, <1>4
<1> QED
  BY <1>1, <1>2, <1>3, <1>6, <1>7, <1>8, <1>9 DEF DrmInv, InLoop

\* main stays at the slot, or goes on to the next one; fb is as it was.
LEMMA SameSlots ==
  ASSUME DrmInv, InLoop, UNCHANGED <<fb, first_valid_connector, crtcs>>,
         \/ i' = i /\ dpc' # "setcrtc" /\ dpc # "setcrtc"
         \/ i' = i + 1 /\ dpc' = "connector" /\ i \in Slots /\ fb[i].base = None
         \/ i' = i + 1 /\ dpc' = "connector" /\ i \in Slots /\ dpc # "setcrtc"
  PROVE  SlotInv'
<1>1. SlotInv /\ i \in Nat /\ RES_BUF \in Nat
  BY DrmAssumption DEF DrmInv, DrmTypeOK
<1>2. CASE i' = i /\ dpc' # "setcrtc" /\ dpc # "setcrtc"
  BY <1>1, <1>2 DEF SlotInv, Mapped
<1>3. CASE i' = i + 1 /\ dpc' = "connector" /\ i \in Slots
  <2>1. fb[i].base = None
    BY <1>1, <1>3 DEF SlotInv
  <2>2. \A s \in Slots : s > i' \/ s = i' => fb[s].base = None
    BY <1>1, <1>3 DEF SlotInv, Slots
  <2>3. \A s \in Slots : s < i' => s < i \/ s = i
    BY <1>1, <1>3 DEF Slots
  <2>4. \A s \in crtcs : s < i'
    BY <1>1, <1>3 DEF SlotInv, DrmInv, Slots
  <2>5. IF first_valid_connector = -1
        THEN \A s \in Slots : s < i' => fb[s].base = None
        ELSE first_valid_connector \in Slots /\ first_valid_connector < i'
    BY <1>1, <1>3, <2>1, <2>3 DEF SlotInv, Slots
  <2> QED
    BY <1>1, <1>3, <2>2, <2>4, <2>5 DEF SlotInv, Mapped
<1> QED
  BY <1>2, <1>3

\* A step inside the loop that leaves the kernel, the counts and fb alone.
LEMMA LoopStep ==
  ASSUME DrmInv, InLoop, dpc # "setcrtc",
         UNCHANGED <<connectors, others, plugs, res, res_conn_buf, dumb, fb, master,
                     first_valid_connector, crtcs>>,
         conn' \in Known, mode' \in Nat \X Nat,
         \/ i' = i /\ dpc' \in {"modes", "create"}
            /\ i <= res.connectors /\ res_conn_buf[i] # None
         \/ i' = i /\ dpc' = "drop"
         \/ i' = i + 1 /\ dpc' = "connector" /\ i <= res.connectors
  PROVE  DrmInv'
<1>1. SlotInv /\ i \in Nat /\ i > 0 /\ res.connectors \in Nat
      /\ res.connectors <= RES_BUF /\ RES_BUF \in Nat
  BY DrmAssumption DEF DrmInv, DrmTypeOK, ResInv, SlotInv
<1>2. SlotInv'
  BY <1>1, SameSlots DEF Slots
<1>3. DrmTypeOK'
  BY <1>1 DEF DrmInv, DrmTypeOK
<1>4. ResInv'
  BY <1>1 DEF DrmInv, ResInv, InLoop, AtSlot
<1> QED
  BY <1>2, <1>3, <1>4 DEF DrmInv, InLoop, Mapped

\* The connector at a slot.
LEMMA AtConnector ==
  ASSUME DrmInv, InLoop, i <= res.connectors, res_conn_buf[i] # None
  PROVE  connectors[res_conn_buf[i]] \in Connector
<1>1. i \in Slots
  BY DrmAssumption DEF DrmInv, DrmTypeOK, ResInv, SlotInv, Slots
<1>2. res_conn_buf[i] \in 1..Len(connectors) /\ connectors \in Seq(Connector)
  BY <1>1 DEF DrmInv, DrmTypeOK, ResInv
<1> QED
  BY <1>2

LEMMA NextConnectorStep == ASSUME DrmInv, NextConnector PROVE DrmInv'
<1>1. /\ dpc = "connector" /\ InLoop
      /\ UNCHANGED <<connectors, others, plugs, res, res_conn_buf, mode, dumb, fb, master,
                     first_valid_connector, crtcs>>
  BY DEF NextConnector, query, result, kernel, InLoop
<1>2. conn \in Known /\ mode \in Nat \X Nat /\ i \in Nat /\ res.connectors \in Nat
  BY DEF DrmInv, DrmTypeOK
<1>3. CASE i > res.connectors /\ dpc' = "drop" /\ UNCHANGED <<i, conn>>
  BY <1>1, <1>2, <1>3, LoopStep
<1>4. CASE i <= res.connectors /\ dpc' = "connector" /\ i' = i + 1 /\ conn' = conn
  BY <1>1, <1>2, <1>4, LoopStep
<1>5. CASE /\ i <= res.connectors /\ res_conn_buf[i] # None
           /\ dpc' = "modes" /\ i' = i /\ conn' \in {NoConn, connectors[res_conn_buf[i]]}
  <2>1. conn' \in Known
    BY <1>1, <1>5, AtConnector, ConnectorKnown
  <2> QED
    BY <1>1, <1>2, <1>5, <2>1, LoopStep
<1> QED
  BY <1>2, <1>3, <1>4, <1>5 DEF NextConnector, Continue

LEMMA GetConnectorStep == ASSUME DrmInv, GetConnector PROVE DrmInv'
<1> DEFINE now == connectors[res_conn_buf[i]]
<1>1. /\ dpc = "modes" /\ InLoop /\ AtSlot
      /\ UNCHANGED <<connectors, others, plugs, res, res_conn_buf, dumb, fb, master,
                     first_valid_connector, crtcs>>
  BY DEF GetConnector, query, result, kernel, InLoop, AtSlot
<1>2. PICK ok \in BOOLEAN :
         /\ conn' = IF ok THEN now ELSE conn
         /\ mode' = IF ok /\ ModesCopied(now) THEN now.modes[1] ELSE <<0, 0>>
         /\ IF Len(conn'.modes) > CONN_BUF \/ (ok /\ PastConnBuf(now))
            THEN dpc' = "overrun" /\ UNCHANGED i
            ELSE \/ dpc' = "connector" /\ i' = i + 1
                 \/ dpc' = "create" /\ UNCHANGED i
  BY DEF GetConnector, Continue
<1>3. i <= res.connectors /\ res_conn_buf[i] # None /\ conn \in Known
  BY <1>1 DEF DrmInv, DrmTypeOK, ResInv
<1>4. now \in Known
  BY <1>1, <1>3, AtConnector, ConnectorKnown
<1> HIDE DEF now
<1>5. conn' \in Known
  BY <1>2, <1>3, <1>4
<1>6. mode' \in Nat \X Nat
  <2>1. now.modes \in Seq(Nat \X Nat) /\ Len(conn.modes) \in Nat
    BY <1>3, <1>4 DEF Known
  <2>2. ModesCopied(now) => now.modes[1] \in Nat \X Nat
    BY <2>1 DEF ModesCopied
  <2>3. <<0, 0>> \in Nat \X Nat
    OBVIOUS
  <2> QED
    BY <1>2, <2>2, <2>3
<1>7. CASE dpc' = "overrun" /\ i' = i /\ (Len(conn'.modes) > CONN_BUF \/ (ok /\ PastConnBuf(now)))
  <2>1. Len(conn'.modes) > CONN_BUF \/ conn'.props > CONN_BUF \/ conn'.encoders > 2 * CONN_BUF
    <3>1. CASE Len(conn'.modes) > CONN_BUF
      BY <3>1
    <3>2. CASE ok /\ PastConnBuf(now)
      <4>1. conn' = now /\ CONN_BUF \in Nat
        BY <1>2, <3>2, DrmAssumption
      <4> QED
        BY <1>3, <1>4, <3>2, <4>1 DEF PastConnBuf, Known
    <3> QED
      BY <1>7, <3>1, <3>2
  <2>2. DrmTypeOK'
    BY <1>1, <1>5, <1>6, <1>7 DEF DrmInv, DrmTypeOK
  <2>3. ResInv'
    BY <1>1, <1>7 DEF DrmInv, ResInv, InLoop, AtSlot
  <2> QED
    BY <1>1, <1>7, <2>1, <2>2, <2>3 DEF DrmInv, InLoop, Mapped
<1>8. CASE \/ dpc' = "connector" /\ i' = i + 1
           \/ dpc' = "create" /\ i' = i
  BY <1>1, <1>3, <1>5, <1>6, <1>8, LoopStep
<1> QED
  BY <1>2, <1>7, <1>8

\* What the three ioctls on the buffer have in common.
LEMMA DumbStep ==
  ASSUME DrmInv, dpc \in {"create", "addfb", "map"}, dpc' \in {"addfb", "map", "mmap"},
         UNCHANGED <<connectors, others, plugs, res, res_conn_buf, i, conn, mode, fb, master,
                     first_valid_connector, crtcs>>,
         dumb' \in Dumb, dumb'.size > 0 => dumb'.width * dumb'.height \in 1..dumb'.size
  PROVE  DrmInv'
<1>1. InLoop /\ AtSlot /\ InLoop' /\ AtSlot'
  BY DEF InLoop, AtSlot
<1>2. SlotInv'
  BY <1>1, SameSlots
<1>3. DrmTypeOK'
  BY DEF DrmInv, DrmTypeOK
<1>4. ResInv'
  BY <1>1 DEF DrmInv, ResInv
<1> QED
  BY <1>1, <1>2, <1>3, <1>4 DEF DrmInv, Mapped

\* The lines of a buffer are as wide as the mode at least.
LEMMA CreateDumbStep == ASSUME DrmInv, CreateDumb PROVE DrmInv'
<1>1. /\ dpc = "create" /\ dpc' = "addfb"
      /\ UNCHANGED <<connectors, others, plugs, res, res_conn_buf, i, conn, mode, fb, master,
                     first_valid_connector, crtcs>>
  BY DEF CreateDumb, query, result, kernel
<1>2. mode \in Nat \X Nat /\ i \in Nat
  BY DEF DrmInv, DrmTypeOK
<1>3. PICK ok \in {b \in BOOLEAN : b => mode[1] * mode[2] > 0}, pad \in Pads :
         dumb' = [NoDumb EXCEPT
                    !.width = mode[1], !.height = mode[2],
                    !.size = IF ok THEN (mode[1] + pad) * mode[2] ELSE 0,
                    !.handle = IF ok THEN i ELSE None]
  BY DEF CreateDumb
<1> DEFINE w == mode[1]
           h == mode[2]
<1>4. w \in Nat /\ h \in Nat /\ pad \in Nat
  BY <1>2, DrmAssumption
<1>5. /\ ok => w * h > 0
      /\ dumb' = [NoDumb EXCEPT !.width = w, !.height = h,
                                !.size = IF ok THEN (w + pad) * h ELSE 0,
                                !.handle = IF ok THEN i ELSE None]
  BY <1>3
<1> HIDE DEF w, h
<1>6. /\ w * h \in Nat /\ pad * h \in Nat /\ (w + pad) * h \in Nat
      /\ (w + pad) * h = w * h + pad * h
  BY <1>4
<1>7. /\ dumb' \in Dumb /\ dumb'.width = w /\ dumb'.height = h
      /\ dumb'.size = IF ok THEN (w + pad) * h ELSE 0
  BY <1>2, <1>4, <1>5, <1>6 DEF NoDumb, Dumb, Id
<1>8. dumb'.size > 0 => dumb'.width * dumb'.height \in 1..dumb'.size
  <2>1. CASE ok
    <3>1. w * h \in 1..(w + pad) * h
      BY <1>5, <1>6, <2>1
    <3> QED
      BY <1>7, <2>1, <3>1
  <2>2. CASE ~ok
    BY <1>7, <2>2
  <2> QED
    BY <2>1, <2>2
<1> QED
  BY <1>1, <1>7, <1>8, DumbStep

LEMMA AddFbStep == ASSUME DrmInv, AddFb PROVE DrmInv'
<1>1. /\ dpc = "addfb" /\ dpc' = "map"
      /\ UNCHANGED <<connectors, others, plugs, res, res_conn_buf, i, conn, mode, fb, master,
                     first_valid_connector, crtcs>>
  BY DEF AddFb, query, result, kernel
<1>2. i \in Nat /\ dumb \in Dumb
  BY DEF DrmInv, DrmTypeOK
<1>3. PICK id \in Id : dumb' = [dumb EXCEPT !.fb_id = id]
  BY <1>2 DEF AddFb, Id
<1>4. /\ dumb' \in Dumb /\ dumb'.size = dumb.size /\ dumb'.width = dumb.width
      /\ dumb'.height = dumb.height
  BY <1>2, <1>3 DEF Dumb
<1>5. dumb'.size > 0 => dumb'.width * dumb'.height \in 1..dumb'.size
  BY <1>4 DEF DrmInv
<1> QED
  BY <1>1, <1>4, <1>5, DumbStep

LEMMA MapDumbStep == ASSUME DrmInv, MapDumb PROVE DrmInv'
<1>1. /\ dpc = "map" /\ dpc' = "mmap"
      /\ UNCHANGED <<connectors, others, plugs, res, res_conn_buf, i, conn, mode, fb, master,
                     first_valid_connector, crtcs>>
  BY DEF MapDumb, query, result, kernel
<1>2. dumb \in Dumb
  BY DEF DrmInv, DrmTypeOK
<1>3. PICK id \in Id : dumb' = [dumb EXCEPT !.offset = id]
  BY <1>2 DEF MapDumb, Dumb, Id
<1>4. /\ dumb' \in Dumb /\ dumb'.size = dumb.size /\ dumb'.width = dumb.width
      /\ dumb'.height = dumb.height
  BY <1>2, <1>3 DEF Dumb
<1>5. dumb'.size > 0 => dumb'.width * dumb'.height \in 1..dumb'.size
  BY <1>4 DEF DrmInv
<1> QED
  BY <1>1, <1>4, <1>5, DumbStep

\* A mapping has room for the pixels of the mode, of which there are some.
LEMMA MmapStep == ASSUME DrmInv, Mmap PROVE DrmInv'
<1>1. /\ dpc = "mmap" /\ InLoop /\ AtSlot
      /\ UNCHANGED <<connectors, others, plugs, res, res_conn_buf, i, conn, mode, dumb,
                     first_valid_connector, crtcs>>
  BY DEF Mmap, query, setup, kernel, InLoop, AtSlot
<1>2. /\ SlotInv /\ dumb \in Dumb /\ i \in Slots /\ i \in Nat /\ RES_BUF \in Nat
      /\ fb \in [Slots -> Buffer] /\ master \in BOOLEAN
      /\ \A s \in crtcs : s \in Slots /\ s # i /\ Mapped(s)
  BY <1>1, DrmAssumption DEF DrmInv, DrmTypeOK, ResInv, SlotInv, Slots
<1>3. PICK base \in Mapping :
         IF base = MAP_FAILED
         THEN /\ fb' = [fb EXCEPT ![i].base = base]
              /\ dpc' = "end" /\ master' = FALSE
         ELSE /\ fb' = [fb EXCEPT ![i] = [base |-> base, len |-> dumb.size,
                                          w |-> dumb.width, h |-> dumb.height]]
              /\ dpc' = "setcrtc" /\ master' = master
  BY DEF Mmap, return
<1>4. \A s \in Slots : s # i => fb'[s] = fb[s] /\ (Mapped(s)' <=> Mapped(s))
  BY <1>2, <1>3 DEF Mapped
<1>5. \A s \in crtcs' : s \in Slots /\ Mapped(s)'
  BY <1>1, <1>2, <1>4
<1>6. ResInv'
  BY <1>1, <1>3 DEF DrmInv, ResInv, InLoop, AtSlot
<1>7. CASE base = MAP_FAILED
  <2>1. fb' = [fb EXCEPT ![i] = [fb[i] EXCEPT !.base = base]]
    BY <1>3, <1>7
  <2>2. [fb[i] EXCEPT !.base = base] \in Buffer
    BY <1>2, <1>7 DEF Buffer
  <2>3. fb' \in [Slots -> Buffer]
    BY <1>2, <2>1, <2>2
  <2>4. DrmTypeOK'
    BY <1>1, <1>3, <1>7, <2>3 DEF DrmInv, DrmTypeOK
  <2> QED
    BY <1>1, <1>3, <1>5, <1>6, <1>7, <2>4 DEF DrmInv, InLoop
<1>8. CASE base # MAP_FAILED
  <2> DEFINE new == [base |-> base, len |-> dumb.size, w |-> dumb.width, h |-> dumb.height]
  <2>1. base \in Nat /\ base # None /\ dumb.size > 0
    BY <1>2, <1>8, DrmAssumption DEF Mapping, Dumb, Id
  <2>2. dumb.width * dumb.height \in 1..dumb.size
    BY <2>1 DEF DrmInv
  <2>3. new \in Buffer
    BY <1>2, <2>1 DEF Buffer, Dumb, Id
  <2>4. fb' = [fb EXCEPT ![i] = new] /\ dpc' = "setcrtc" /\ master' = master
    BY <1>3, <1>8
  <2>5. /\ fb' \in [Slots -> Buffer] /\ fb'[i] = new
    BY <1>2, <2>3, <2>4
  <2>6. Mapped(i)'
    BY <1>1, <1>8, <2>1, <2>2, <2>5 DEF Mapped
  <2>7. SlotInv'
    <3>1. \A s \in crtcs : s < i
      BY <1>2 DEF SlotInv
    <3>2. \A s \in Slots : s > i => fb'[s].base = None
      BY <1>2, <1>4 DEF SlotInv, Slots
    <3>3. CASE first_valid_connector = -1
      <4>1. \A s \in Slots : s < i => fb'[s].base = None
        BY <1>2, <1>4, <3>3 DEF SlotInv, Slots
      <4> QED
        BY <1>1, <1>2, <2>4, <2>6, <3>1, <3>2, <3>3, <4>1 DEF SlotInv
    <3>4. CASE first_valid_connector # -1
      <4>1. /\ first_valid_connector \in Slots /\ first_valid_connector < i
            /\ Mapped(first_valid_connector)
            /\ \A s \in 1..first_valid_connector-1 : fb[s].base = None
        BY <1>2, <3>4 DEF SlotInv
      <4>2. \A s \in 1..first_valid_connector-1 : fb'[s].base = None
        <5>1. \A s \in 1..first_valid_connector-1 : s \in Slots /\ s # i
          BY <1>2, <4>1 DEF Slots
        <5> QED
          BY <1>4, <4>1, <5>1
      <4>3. Mapped(first_valid_connector)'
        <5>1. first_valid_connector # i
          BY <1>2, <4>1 DEF Slots
        <5> QED
          BY <1>1, <1>4, <4>1, <5>1 DEF Mapped
      <4> QED
        BY <1>1, <1>2, <2>4, <2>6, <3>1, <3>2, <3>4, <4>1, <4>2, <4>3 DEF SlotInv
    <3> QED
      BY <3>3, <3>4
  <2>8. DrmTypeOK'
    BY <1>1, <2>4, <2>5 DEF DrmInv, DrmTypeOK
  <2> QED
    BY <1>1, <1>5, <1>6, <2>4, <2>7, <2>8 DEF DrmInv, InLoop
<1> QED
  BY <1>7, <1>8

LEMMA SetCrtcStep == ASSUME DrmInv, SetCrtc PROVE DrmInv'
<1>1. /\ dpc = "setcrtc" /\ dpc' = "connector" /\ i' = i + 1 /\ InLoop /\ AtSlot
      /\ crtcs' \in {crtcs, crtcs \cup {i}}
      /\ first_valid_connector' = IF first_valid_connector = -1 THEN i
                                  ELSE first_valid_connector
      /\ UNCHANGED <<connectors, others, plugs, res, res_conn_buf, conn, mode, dumb, fb, master>>
  BY DEF SetCrtc, Continue, query, setup, kernel, InLoop, AtSlot
<1>2. /\ SlotInv /\ i \in Slots /\ i \in Nat /\ Mapped(i) /\ RES_BUF \in Nat
      /\ \A s \in crtcs : s \in Slots /\ s < i /\ Mapped(s)
      /\ \A s \in Slots : s > i => fb[s].base = None
  BY <1>1, DrmAssumption DEF DrmInv, DrmTypeOK, ResInv, SlotInv, Slots
<1>3. \A s : Mapped(s)' <=> Mapped(s)
  BY <1>1 DEF Mapped
<1>4. \A s \in crtcs' : s \in Slots /\ s < i' /\ Mapped(s)
  BY <1>1, <1>2 DEF Slots
<1>5. \A s \in Slots : s > i' \/ s = i' => fb[s].base = None
  BY <1>1, <1>2 DEF Slots
<1>6. /\ first_valid_connector' \in Slots /\ first_valid_connector' < i'
      /\ first_valid_connector' # -1 /\ Mapped(first_valid_connector')
      /\ \A s \in 1..first_valid_connector'-1 : fb[s].base = None
  <2>1. CASE first_valid_connector = -1
    <3>1. \A s \in Slots : s < i => fb[s].base = None
      BY <1>2, <2>1 DEF SlotInv
    <3>2. first_valid_connector' = i
      BY <1>1, <2>1
    <3>3. \A s \in 1..i-1 : s \in Slots /\ s < i
      BY <1>2 DEF Slots
    <3>4. i < i' /\ i # -1
      BY <1>1, <1>2
    <3>5. \A s \in 1..i-1 : fb[s].base = None
      BY <3>1, <3>3
    <3> QED
      BY <1>2, <3>2, <3>4, <3>5
  <2>2. CASE first_valid_connector # -1
    BY <1>1, <1>2, <2>2 DEF SlotInv, Slots
  <2> QED
    BY <2>1, <2>2
<1>7. Mapped(first_valid_connector)'
  BY <1>1, <1>6 DEF Mapped
<1>8. SlotInv'
  <2>1. i' > 0 /\ dpc' # "setcrtc"
    BY <1>1, <1>2
  <2>2. \A s \in 1..first_valid_connector'-1 : fb'[s].base = None
    BY <1>1, <1>6
  <2>3. fb' = fb
    BY <1>1
  <2> QED
    BY <1>4, <1>5, <1>6, <1>7, <2>1, <2>2, <2>3 DEF SlotInv
<1>9. DrmTypeOK'
  BY <1>1, <1>2, <1>6, DrmAssumption DEF DrmInv, DrmTypeOK, Slots
<1>10. ResInv'
  BY <1>1 DEF DrmInv, ResInv, InLoop, AtSlot
<1> QED
  BY <1>1, <1>3, <1>4, <1>8, <1>9, <1>10 DEF DrmInv

LEMMA DropMasterStep == ASSUME DrmInv, DropMaster PROVE DrmInv'
<1>1. /\ dpc = "drop" /\ master' \in {FALSE, master}
      /\ dpc' = IF first_valid_connector = -1 THEN "end" ELSE "draw"
      /\ UNCHANGED <<connectors, others, plugs, res, res_conn_buf, i, conn, mode, dumb, fb,
                     first_valid_connector, crtcs>>
  BY DEF DropMaster, query, setup, result, kernel
<1>2. SlotInv
  BY <1>1 DEF DrmInv
<1>3. SlotInv'
  BY <1>1, <1>2 DEF SlotInv, Mapped
<1>4. DrmTypeOK' /\ ResInv'
  BY <1>1 DEF DrmInv, DrmTypeOK, ResInv, AtSlot, InLoop
<1> QED
  BY <1>1, <1>3, <1>4 DEF DrmInv, InLoop, Mapped

LEMMA DrawStep == ASSUME DrmInv, Draw PROVE DrmInv'
<1>1. /\ dpc = "draw" /\ master' = FALSE /\ dpc' = "end"
      /\ UNCHANGED <<connectors, others, plugs, res, res_conn_buf, i, conn, mode, dumb, fb,
                     first_valid_connector, crtcs>>
  BY DEF Draw, return, query, setup, result, kernel
<1>2. DrmTypeOK' /\ ResInv'
  BY <1>1 DEF DrmInv, DrmTypeOK, ResInv, AtSlot, InLoop
<1> QED
  BY <1>1, <1>2 DEF DrmInv, InLoop, Mapped

LEMMA DrmStep == DrmInv /\ [DrmNext]_drmVars => DrmInv'
<1> SUFFICES ASSUME DrmInv, [DrmNext]_drmVars PROVE DrmInv'
  OBVIOUS
<1>1. CASE UNCHANGED drmVars
  BY <1>1
  DEF drmVars, DrmInv, DrmTypeOK, ResInv, SlotInv, Mapped, AtSlot, InLoop
<1> QED
  BY <1>1, PlugStep, OpenStep, GetResourcesStep, NextConnectorStep,
     GetConnectorStep, CreateDumbStep, AddFbStep, MapDumbStep, MmapStep,
     SetCrtcStep, DropMasterStep, DrawStep
  DEF DrmNext

LEMMA DrmMapped == DrmInv => DrmDrawsMapped
BY DEF DrmInv, DrmDrawsMapped, SlotInv, Mapped, InLoop

\* Whichever ioctls fail and whatever is plugged in or taken off meanwhile, for
\* any card and any length of the arrays: main draws on a buffer that is mapped,
\* on no more pixels than the kernel mapped, the first such buffer there is, and
\* only what is mapped is shown; the arrays are overrun only by a card with more
\* objects, or a connector with longer lists, than they have room for.
THEOREM DrawsMapped == DrmSpec => []DrmDrawsMapped
<1>1. DrmSpec => []DrmInv
  BY DrmInitInv, DrmStep, PTL DEF DrmSpec
<1> QED
  BY <1>1, DrmMapped, PTL
=============================================================================
