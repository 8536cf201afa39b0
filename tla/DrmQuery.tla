------------------------------ MODULE DrmQuery ------------------------------
(***************************************************************************)
(* fb-drm/drm.c: query the resources of a graphics card with bare ioctls,  *)
(* put a buffer on every connector that can show one, draw on the first.   *)
(*                                                                         *)
(* Only open and mmap are checked for errors.  An ioctl that fails leaves  *)
(* the structure it was given as it was, and main goes on with it.         *)
(*                                                                         *)
(* The card decides how much there is to list, the arrays are of a fixed   *)
(* length: dpc is "overrun" once main or the kernel has gone past the end  *)
(* of one, and nothing is said of what comes then.                         *)
(***************************************************************************)
EXTENDS Integers, Sequences, FiniteSets

CONSTANTS
    Cards,   \* the cards: connectors, and how many of the other objects
    ModeLists, \* the modes a connector may offer, none without a monitor
    Pads,    \* by how many pixels a line of a buffer may exceed the width
    RES_BUF, \* slots in each array about the card: 10
    CONN_BUF, \* slots in each array about a connector: 20
    None,    \* nothing: no mode, no buffer, no mapping
    MAP_FAILED,
    MaxPlugs \* bound on the connectors plugged in or out during the run

\* The width and the height of a mode are unsigned; the values that stand for
\* nothing are no addresses.
ASSUME DrmAssumption ==
    /\ None \notin Nat /\ MAP_FAILED \notin Nat /\ MaxPlugs \in Nat
    /\ \A m \in ModeLists : m \in Seq(Nat \X Nat)
    /\ Pads \subseteq Nat /\ RES_BUF \in Nat \ {0} /\ CONN_BUF \in Nat \ {0}
    /\ \A c \in Cards :
          /\ c.connectors \in Seq([modes : ModeLists, props : Nat, encoders : Nat,
                                   encoder_id : Nat \cup {None}])
          /\ c.others \in Nat

VARIABLES
    dpc,         \* the next thing main does
    connectors,  \* the kernel's connectors
    others,      \* the largest of its counts of framebuffers, CRTCs and encoders
    res,         \* the counts in res
    res_conn_buf,\* the connectors in the slots of res_conn_buf; None is zero
    i,           \* the loop over the slots
    conn,        \* conn, with count_modes as a list of that length
    mode,        \* conn_mode_buf[0]
    dumb,        \* create_dumb, cmd_dumb, map_dumb: what the ioctls filled in
    fb,          \* fb_base, fb_w, fb_h of the slots; len is what is mapped there
    first_valid_connector,
    crtcs,       \* the slots whose buffer the kernel has put on a CRTC
    master,      \* the kernel takes the process for the card's master
    plugs        \* bounded by MaxPlugs

drmVars == <<dpc, connectors, others, res, res_conn_buf, i, conn, mode, dumb, fb,
             first_valid_connector, crtcs, master, plugs>>

query == <<res, res_conn_buf>>
setup == <<conn, mode, dumb>>
result == <<fb, first_valid_connector, crtcs>>
kernel == <<connectors, others, plugs>>

NoRes == [connectors |-> 0, others |-> 0]
NoConn == [modes |-> <<>>, props |-> 0, encoders |-> 0, encoder_id |-> None]
NoFb == [base |-> None, len |-> 0, w |-> 0, h |-> 0]
NoDumb == [size |-> 0, handle |-> None, offset |-> None, fb_id |-> None,
           width |-> 0, height |-> 0]

DrmStart ==
    /\ dpc = "open"
    /\ res = NoRes /\ res_conn_buf = [s \in 1..RES_BUF |-> None]
    /\ i = 0
    /\ conn = NoConn /\ mode = <<0, 0>> /\ dumb = NoDumb
    /\ fb = [s \in 1..RES_BUF |-> NoFb] /\ first_valid_connector = -1 /\ crtcs = {}
    /\ master = FALSE
    /\ plugs = 0

DrmInit ==
    /\ \E c \in Cards : connectors = c.connectors /\ others = c.others
    /\ DrmStart

return == dpc' = "end" /\ master' = FALSE

-----------------------------------------------------------------------------
(* The kernel.                                                             *)

\* A monitor is connected or taken off at any time.
Plug ==
    /\ dpc \notin {"open", "overrun", "end"} /\ plugs < MaxPlugs
    /\ plugs' = plugs + 1
    /\ \E c \in DOMAIN connectors : \E m \in ModeLists \ {connectors[c].modes} :
          connectors' = [connectors EXCEPT ![c].modes = m]
    /\ UNCHANGED <<dpc, others, query, i, setup, result, master>>

Counts == [connectors |-> Len(connectors), others |-> others]

\* The ids of two connectors, 32 bits each, fill one slot of 64 bits; whoever
\* takes the slot for an id sees the lower half, the first of the two.
Packed(n) == [s \in 1..RES_BUF |-> IF 2 * s - 1 <= n THEN 2 * s - 1 ELSE None]

-----------------------------------------------------------------------------
(* main.                                                                   *)

\* SET_MASTER and the first GETRESOURCES may fail; without SET_MASTER the
\* process may be the master because it was the first to open the card.
Open ==
    /\ dpc = "open"
    /\ \/ return /\ UNCHANGED res
       \/ /\ dpc' = "resources" /\ master' \in BOOLEAN
          /\ res' \in {NoRes, Counts}
    /\ UNCHANGED <<res_conn_buf, i, setup, result, kernel>>

\* The second call copies the ids of as many objects as the first one counted;
\* what is then in res is printed, slot by slot, whether it was copied or not.
GetResources ==
    /\ dpc = "resources"
    /\ \E ok \in BOOLEAN :
          /\ res' = IF ok THEN Counts ELSE res
          /\ res_conn_buf' = IF ok /\ res.connectors >= Len(connectors)
                             THEN Packed(Len(connectors)) ELSE res_conn_buf
    /\ IF res'.connectors > RES_BUF \/ res'.others > RES_BUF
       THEN dpc' = "overrun" /\ UNCHANGED i
       ELSE dpc' = "connector" /\ i' = 1
    /\ UNCHANGED <<setup, result, kernel, master>>

Continue == dpc' = "connector" /\ i' = i + 1

\* The next slot, over the empty ones; the first call tells how many modes,
\* properties and encoders there are.
NextConnector ==
    /\ dpc = "connector"
    /\ IF i > res.connectors
       THEN dpc' = "drop" /\ UNCHANGED <<i, conn>>
       ELSE IF res_conn_buf[i] = None
       THEN Continue /\ UNCHANGED conn
       ELSE /\ dpc' = "modes"
            /\ conn' \in {NoConn, connectors[res_conn_buf[i]]}
            /\ UNCHANGED i
    /\ UNCHANGED <<query, mode, dumb, result, kernel, master>>

\* What the second call copies when it finds now: each list for which the first
\* one counted as many.
ModesCopied(now) == Len(now.modes) \in 1..Len(conn.modes)
PastConnBuf(now) ==
    \/ now.props \in CONN_BUF + 1..conn.props
    \/ now.encoders \in 2 * CONN_BUF + 1..conn.encoders

\* After the second call the modes are printed, copied or not, and main tests
\* what it knows of the connector (connection is 0 only if encoders is).
GetConnector ==
    /\ dpc = "modes"
    /\ \E ok \in BOOLEAN :
          LET now == connectors[res_conn_buf[i]]
          IN /\ conn' = IF ok THEN now ELSE conn
             /\ mode' = IF ok /\ ModesCopied(now) THEN now.modes[1] ELSE <<0, 0>>
             /\ IF Len(conn'.modes) > CONN_BUF \/ (ok /\ PastConnBuf(now))
                THEN dpc' = "overrun" /\ UNCHANGED i
                ELSE IF conn'.encoders < 1 \/ conn'.modes = <<>> \/ conn'.encoder_id = None
                THEN Continue
                ELSE dpc' = "create" /\ UNCHANGED i
    /\ UNCHANGED <<query, dumb, result, kernel, master>>

\* The kernel refuses a buffer without pixels, and may refuse any; its lines
\* may be longer than asked for.
CreateDumb ==
    /\ dpc = "create" /\ dpc' = "addfb"
    /\ \E ok \in {b \in BOOLEAN : b => mode[1] * mode[2] > 0}, pad \in Pads :
          dumb' = [NoDumb EXCEPT
                     !.width = mode[1], !.height = mode[2],
                     !.size = IF ok THEN (mode[1] + pad) * mode[2] ELSE 0,
                     !.handle = IF ok THEN i ELSE None]
    /\ UNCHANGED <<query, i, conn, mode, result, kernel, master>>

AddFb ==
    /\ dpc = "addfb" /\ dpc' = "map"
    /\ \E ok \in {b \in BOOLEAN : b => dumb.handle # None} :
          dumb' = [dumb EXCEPT !.fb_id = IF ok THEN i ELSE None]
    /\ UNCHANGED <<query, i, conn, mode, result, kernel, master>>

MapDumb ==
    /\ dpc = "map" /\ dpc' = "mmap"
    /\ \E ok \in {b \in BOOLEAN : b => dumb.handle # None} :
          dumb' = [dumb EXCEPT !.offset = IF ok THEN dumb.handle ELSE None]
    /\ UNCHANGED <<query, i, conn, mode, result, kernel, master>>

\* What mmap may return: it fails for no bytes and without the buffer's offset.
Mapping == {MAP_FAILED} \cup
           (IF dumb.size > 0 /\ dumb.offset # None THEN {dumb.offset} ELSE {})

\* Mutant: main goes on when mmap fails.
MmapUnchecked ==
    /\ dpc = "mmap"
    /\ \E base \in Mapping :
          /\ fb' = [fb EXCEPT ![i] = [base |-> base, len |-> dumb.size,
                                      w |-> dumb.width, h |-> dumb.height]]
          /\ dpc' = "setcrtc" /\ UNCHANGED master
    /\ UNCHANGED <<query, i, setup, first_valid_connector, crtcs, kernel>>

Mmap ==
    /\ dpc = "mmap"
    /\ \E base \in Mapping :
          IF base = MAP_FAILED
          THEN /\ fb' = [fb EXCEPT ![i].base = base]
               /\ return
          ELSE /\ fb' = [fb EXCEPT ![i] = [base |-> base, len |-> dumb.size,
                                           w |-> dumb.width, h |-> dumb.height]]
               /\ dpc' = "setcrtc" /\ UNCHANGED master
    /\ UNCHANGED <<query, i, setup, first_valid_connector, crtcs, kernel>>

\* SETCRTC may fail too, and does without a framebuffer or for another than the
\* master.
SetCrtc ==
    /\ dpc = "setcrtc"
    /\ \E ok \in {b \in BOOLEAN : b => dumb.fb_id # None /\ master} :
          crtcs' = IF ok THEN crtcs \cup {i} ELSE crtcs
    /\ first_valid_connector' = IF first_valid_connector = -1 THEN i
                                ELSE first_valid_connector
    /\ Continue
    /\ UNCHANGED <<query, setup, fb, kernel, master>>

\* DROP_MASTER may fail.
DropMaster ==
    /\ dpc = "drop"
    /\ dpc' = IF first_valid_connector = -1 THEN "end" ELSE "draw"
    /\ master' \in {FALSE, master}
    /\ UNCHANGED <<query, i, setup, result, kernel>>

Draw ==
    /\ dpc = "draw"
    /\ return
    /\ UNCHANGED <<query, i, setup, result, kernel>>

DrmNext ==
    \/ Plug
    \/ Open
    \/ GetResources
    \/ NextConnector
    \/ GetConnector
    \/ CreateDumb
    \/ AddFb
    \/ MapDumb
    \/ Mmap
    \/ SetCrtc
    \/ DropMaster
    \/ Draw

DrmSpec == DrmInit /\ [][DrmNext]_drmVars

-----------------------------------------------------------------------------
(* Properties.                                                             *)

\* Whatever ioctl fails and whatever is plugged meanwhile, main draws only on a
\* buffer that is mapped, as many pixels as are mapped or fewer; it is the buffer
\* of the first slot that has one, and every slot on a CRTC has one.  No failure
\* takes main past the end of an array: it gets there only when the card has more
\* objects, or the connector more modes, properties or encoders, than fit.
DrmDrawsMapped ==
    /\ dpc = "draw" =>
          LET f == fb[first_valid_connector]
          IN /\ f.base \notin {None, MAP_FAILED}
             /\ f.w * f.h \in 1..f.len
             /\ \A s \in 1..first_valid_connector-1 : fb[s].base = None
    /\ \A s \in crtcs : fb[s].base \notin {None, MAP_FAILED}
    /\ dpc = "overrun" =>
          \/ Len(connectors) > RES_BUF \/ others > RES_BUF
          \/ Len(conn.modes) > CONN_BUF
          \/ conn.props > CONN_BUF \/ conn.encoders > 2 * CONN_BUF
===============================================================================
