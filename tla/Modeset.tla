------------------------------- MODULE Modeset -------------------------------
(***************************************************************************)
(* fb-drm/modeset.c (one buffer per device) and                            *)
(* fb-drm/modeset-double-buffered.c (two): bind a CRTC and buffers to each *)
(* connected monitor, show pictures, put the screens back.                 *)
(*                                                                         *)
(* Every call into the kernel is a step, because each of them may fail and *)
(* each changes state that outlives the pointer the program drops.  The    *)
(* kernel is modelled by what the program can tell of it: which buffers,   *)
(* framebuffers and mappings exist, what each CRTC scans out and which     *)
(* CRTC drives each connector.                                             *)
(***************************************************************************)
EXTENDS Integers, Sequences

CONSTANTS
    Connector,      \* the connectors
    ConnectorOrder, \* res->connectors
    Encoder,        \* the encoders
    EncodersOf,     \* conn->encoders of each connector
    PossibleCrtcs,  \* enc->possible_crtcs of each encoder
    CrtcCount,      \* res->count_crtcs; a CRTC is its index, from 1
    Rounds,         \* pictures drawn: 50 in the code
    Failing,        \* the calls that may fail
    Nobody, Null,   \* NULL as a device, and as a saved configuration
    Old, Off        \* what a CRTC scans out: what it did before, or nothing

Crtc == 1..CrtcCount
NoCrtc == 0
Buffer == Connector \X {0, 1}  \* dev->bufs[0], dev->bufs[1]; the one of modeset.c is 0

ASSUME ModesetAssumption ==
    /\ CrtcCount \in Nat
    /\ Rounds \in Nat
    /\ ConnectorOrder \in Seq(Connector)
    /\ \A i, j \in DOMAIN ConnectorOrder :
          ConnectorOrder[i] = ConnectorOrder[j] => i = j
    /\ EncodersOf \in [Connector -> Seq(Encoder)]
    /\ PossibleCrtcs \in [Encoder -> SUBSET Crtc]
    /\ Nobody \notin Connector
    /\ {Null, Old, Off} \cap Buffer = {}
    /\ Null # Old /\ Null # Off /\ Old # Off

VARIABLES
    nbufs,    \* which program: one buffer, or two
    \* the kernel
    route,    \* the CRTC that drives each connector
    scan,     \* what each CRTC scans out: Old, Off or a buffer
    dumb,     \* dumb buffers that exist
    fbs,      \* framebuffers that exist
    mapped,   \* buffers mapped into the program
    \* the program
    pc,
    ret,      \* where modeset_destroy_fb returns to
    next,     \* the loop index of modeset_prepare
    list,     \* modeset_list
    dev,      \* the device being set up or torn down
    buf,      \* the buffer being created or destroyed
    crtc, front, saved, \* fields of each device
    iter,     \* the position in the list of the loops over it
    round,    \* the round of modeset_draw
    \* history
    oldScan,  \* what each CRTC scanned out before the program ran
    restored  \* devices whose saved configuration the kernel took back

kernel  == <<route, scan, dumb, fbs, mapped>>
fields  == <<crtc, front, saved>>
rest    == <<ret, nbufs>>
history == <<oldScan, restored>>
vars == <<nbufs, route, scan, dumb, fbs, mapped, pc, ret, next, list, dev,
          buf, crtc, front, saved, iter, round, oldScan, restored>>

Label == {"start", "connector", "find_crtc", "create", "add_fb", "map_dumb",
          "mmap", "err_fb", "err_destroy", "munmap", "rm_fb", "destroy",
          "save", "show", "draw", "flip", "cleanup", "close", "killed",
          "done", "crashed"}

Picture == Buffer \cup {Old, Off}
Listed == {list[i] : i \in DOMAIN list}

TypeOK ==
    /\ nbufs \in {1, 2}
    /\ route \in [Connector -> Crtc \cup {NoCrtc}]
    /\ scan \in [Crtc -> Picture]
    /\ dumb \subseteq Buffer /\ fbs \subseteq Buffer /\ mapped \subseteq Buffer
    /\ pc \in Label
    /\ ret \in {"connector", "cleanup"}
    /\ next \in 1..Len(ConnectorOrder) + 1
    /\ list \in Seq(Connector)
    /\ dev \in Connector \cup {Nobody}
    /\ buf \in {0, 1}
    /\ crtc \in [Connector -> Crtc \cup {NoCrtc}]
    /\ front \in [Connector -> {0, 1}]
    /\ saved \in [Connector -> Picture \cup {Null}]
    /\ iter \in Nat
    /\ round \in 0..Rounds
    /\ oldScan \in [Crtc -> {Old, Off}]
    /\ restored \subseteq Connector

\* Any routing the hardware allows; a CRTC is on exactly when it drives a
\* connector.
Init ==
    /\ nbufs \in {1, 2}
    /\ route \in [Connector -> Crtc \cup {NoCrtc}]
    /\ \A c \in Connector : route[c] # NoCrtc =>
          \E i \in DOMAIN EncodersOf[c] :
              route[c] \in PossibleCrtcs[EncodersOf[c][i]]
    /\ scan = [k \in Crtc |->
                 IF \E c \in Connector : route[c] = k THEN Old ELSE Off]
    /\ dumb = {} /\ fbs = {} /\ mapped = {}
    /\ pc = "start"
    /\ ret = "connector"
    /\ next = 1
    /\ list = <<>>
    /\ dev = Nobody
    /\ buf = 0
    /\ crtc = [c \in Connector |-> NoCrtc]
    /\ front = [c \in Connector |-> 0]
    /\ saved = [c \in Connector |-> Null]
    /\ iter = 1
    /\ round = 0
    /\ oldScan = scan
    /\ restored = {}

-----------------------------------------------------------------------------
(* The kernel, as the program uses it.                                     *)

Fails(call) == call \in Failing

\* drmModeSetCrtc with one connector: the CRTC drives that connector and no
\* other, and the CRTC the connector was taken from goes dark if it drives
\* nothing any more.
SetCrtc(k, picture, c) ==
    LET driven == [d \in Connector |->
                     CASE d = c -> k
                       [] d # c /\ route[d] = k -> NoCrtc
                       [] OTHER -> route[d]]
    IN /\ route' = driven
       /\ scan' = [j \in Crtc |->
                     CASE j = k -> picture
                       [] j = route[c] /\ j # k
                            /\ (\A d \in Connector : driven[d] # j) -> Off
                       [] OTHER -> scan[j]]

\* Removing framebuffers, by drmModeRmFB or because the file is closed, turns
\* off the CRTCs that scan them out.
RemoveFbs(S) ==
    /\ fbs' = fbs \ S
    /\ scan' = [k \in Crtc |-> IF scan[k] \in S THEN Off ELSE scan[k]]
    /\ route' = [c \in Connector |->
                   IF route[c] # NoCrtc /\ scan[route[c]] \in S
                   THEN NoCrtc ELSE route[c]]

-----------------------------------------------------------------------------
(* modeset_prepare, modeset_setup_dev.                                     *)

\* main: open the card and fetch its resources; either may fail.
Start ==
    /\ pc = "start"
    /\ \/ pc' = "connector"
       \/ Fails("open") /\ pc' = "close"
    /\ UNCHANGED <<kernel, rest, next, list, dev, buf, fields, iter, round,
                   history>>

\* drmModeGetConnector, and the two checks of modeset_setup_dev.  A connector
\* that cannot be read, has no monitor or has no mode is passed over.
GetConnector ==
    /\ pc = "connector"
    /\ next <= Len(ConnectorOrder)
    /\ next' = next + 1
    /\ \/ UNCHANGED <<pc, dev>>
       \/ dev' = ConnectorOrder[next] /\ pc' = "find_crtc"
    /\ UNCHANGED <<kernel, rest, list, buf, fields, iter, round, history>>

\* The loop over the connectors is over: on to the first loop over the list.
Prepared ==
    /\ pc = "connector"
    /\ next > Len(ConnectorOrder)
    /\ pc' = IF list = <<>> THEN "draw" ELSE "save"
    /\ iter' = 1
    /\ UNCHANGED <<kernel, rest, next, list, dev, buf, fields, round, history>>

\* CRTCs that no listed device uses.
Unused == Crtc \ {crtc[d] : d \in Listed}

\* The second part of modeset_find_crtc: the first CRTC that works, in the
\* order of the encoders that could be read.
FirstMatch(c, unread, k) ==
    \E i \in DOMAIN EncodersOf[c] :
        /\ EncodersOf[c][i] \notin unread
        /\ k \in Unused \cap PossibleCrtcs[EncodersOf[c][i]]
        /\ \A j \in Unused \cap PossibleCrtcs[EncodersOf[c][i]] : k <= j
        /\ \A h \in 1..i-1 :
              \/ EncodersOf[c][h] \in unread
              \/ Unused \cap PossibleCrtcs[EncodersOf[c][h]] = {}

FindCrtcTaken(c) ==
    \E unread \in SUBSET Encoder, current \in BOOLEAN :
        /\ unread # {} => Fails("get_encoder")
        /\ ~current => Fails("get_encoder")
        /\ IF current /\ route[c] # NoCrtc
           THEN /\ crtc' = [crtc EXCEPT ![c] = route[c]]
                /\ pc' = "create"
           ELSE \/ \E k \in Crtc :
                     /\ FirstMatch(c, unread, k)
                     /\ crtc' = [crtc EXCEPT ![c] = k]
                     /\ pc' = "create"
                \/ /\ \A k \in Crtc : ~FirstMatch(c, unread, k)
                   /\ pc' = "connector"
                   /\ crtc' = crtc

\* modeset_find_crtc: the CRTC the connector is bound to, unless its encoder
\* cannot be read or a listed device uses that CRTC; else the first match.
FindCrtc(c) ==
    \E unread \in SUBSET Encoder, current \in BOOLEAN :
        /\ unread # {} => Fails("get_encoder")
        /\ ~current => Fails("get_encoder")
        /\ IF current /\ route[c] \in Unused
           THEN /\ crtc' = [crtc EXCEPT ![c] = route[c]]
                /\ pc' = "create"
           ELSE \/ \E k \in Crtc :
                     /\ FirstMatch(c, unread, k)
                     /\ crtc' = [crtc EXCEPT ![c] = k]
                     /\ pc' = "create"
                \/ /\ \A k \in Crtc : ~FirstMatch(c, unread, k)
                   /\ pc' = "connector"
                   /\ crtc' = crtc

SetupCrtc ==
    /\ pc = "find_crtc"
    /\ FindCrtc(dev)
    /\ dev' = IF pc' = "connector" THEN Nobody ELSE dev
    /\ buf' = 0
    /\ UNCHANGED <<kernel, rest, next, list, front, saved, iter, round,
                   history>>

-----------------------------------------------------------------------------
(* modeset_create_fb on buffer buf of device dev.                          *)

This == <<dev, buf>>

\* modeset_setup_dev returned an error: the device is freed, on to the next.
Drop == pc' = "connector" /\ dev' = Nobody /\ UNCHANGED buf

SetupFailedLeaks == Drop

\* modeset_create_fb failed: of two buffers, the first is destroyed again.
SetupFailed ==
    IF buf = 1
    THEN pc' = "munmap" /\ buf' = 0 /\ UNCHANGED dev
    ELSE Drop

CreateDumb ==
    /\ pc = "create"
    /\ \/ /\ dumb' = dumb \cup {This}
          /\ pc' = "add_fb"
          /\ UNCHANGED <<dev, buf>>
       \/ /\ Fails("create_dumb")
          /\ SetupFailed
          /\ UNCHANGED dumb
    /\ UNCHANGED <<route, scan, fbs, mapped, rest, next, list, fields, iter,
                   round, history>>

AddFB ==
    /\ pc = "add_fb"
    /\ \/ fbs' = fbs \cup {This} /\ pc' = "map_dumb"
       \/ Fails("add_fb") /\ pc' = "err_destroy" /\ UNCHANGED fbs
    /\ UNCHANGED <<route, scan, dumb, mapped, rest, next, list, dev, buf,
                   fields, iter, round, history>>

MapDumb ==
    /\ pc = "map_dumb"
    /\ \/ pc' = "mmap"
       \/ Fails("map_dumb") /\ pc' = "err_fb"
    /\ UNCHANGED <<kernel, rest, next, list, dev, buf, fields, iter, round,
                   history>>

\* The buffer is complete; modeset_prepare links a device that has all of its
\* buffers at the head of modeset_list.
Created ==
    IF buf + 1 < nbufs
    THEN pc' = "create" /\ buf' = buf + 1 /\ UNCHANGED <<list, dev>>
    ELSE /\ list' = <<dev>> \o list
         /\ dev' = Nobody
         /\ pc' = "connector"
         /\ UNCHANGED buf

MmapUnchecked ==
    /\ pc = "mmap"
    /\ \/ mapped' = mapped \cup {This} /\ Created
       \/ Fails("mmap") /\ Created /\ UNCHANGED mapped
    /\ UNCHANGED <<route, scan, dumb, fbs, rest, next, fields, iter, round,
                   history>>

Mmap ==
    /\ pc = "mmap"
    /\ \/ mapped' = mapped \cup {This} /\ Created
       \/ /\ Fails("mmap")
          /\ pc' = "err_fb"
          /\ UNCHANGED <<mapped, list, dev, buf>>
    /\ UNCHANGED <<route, scan, dumb, fbs, rest, next, fields, iter, round,
                   history>>

\* err_fb
ErrFb ==
    /\ pc = "err_fb"
    /\ RemoveFbs({This})
    /\ pc' = "err_destroy"
    /\ UNCHANGED <<dumb, mapped, rest, next, list, dev, buf, fields, iter,
                   round, history>>

\* err_destroy
ErrDestroy ==
    /\ pc = "err_destroy"
    /\ dumb' = dumb \ {This}
    /\ SetupFailed
    /\ UNCHANGED <<route, scan, fbs, mapped, rest, next, list, fields, iter,
                   round, history>>

-----------------------------------------------------------------------------
(* modeset_destroy_fb on buffer buf of device dev: after a failed setup, or *)
(* from modeset_cleanup.                                                   *)

Munmap ==
    /\ pc = "munmap"
    /\ mapped' = mapped \ {This}
    /\ pc' = "rm_fb"
    /\ UNCHANGED <<route, scan, dumb, fbs, rest, next, list, dev, buf, fields,
                   iter, round, history>>

RmFB ==
    /\ pc = "rm_fb"
    /\ RemoveFbs({This})
    /\ pc' = "destroy"
    /\ UNCHANGED <<dumb, mapped, rest, next, list, dev, buf, fields, iter,
                   round, history>>

\* modeset_cleanup goes on with bufs[0], then frees the device; a failed setup
\* has destroyed all there is.
DestroyDumb ==
    /\ pc = "destroy"
    /\ dumb' = dumb \ {This}
    /\ IF buf = 1
       THEN buf' = 0 /\ pc' = "munmap" /\ UNCHANGED dev
       ELSE /\ pc' = ret
            /\ dev' = Nobody
            /\ UNCHANGED buf
    /\ UNCHANGED <<route, scan, fbs, mapped, rest, next, list, fields, iter,
                   round, history>>

-----------------------------------------------------------------------------
(* main and modeset_draw: loops over modeset_list.                         *)

Device == list[iter]

\* The buffer that is drawn into and then shown.
Back(d) == IF nbufs = 2 THEN <<d, 1 - front[d]>> ELSE <<d, 0>>

\* The step of a loop over the list: the next device or, after the last, the
\* label the program goes on at.
Advance(again, after) ==
    IF iter < Len(list)
    THEN pc' = again /\ iter' = iter + 1
    ELSE pc' = after /\ iter' = 1

\* saved_crtc = drmModeGetCrtc: NULL when the call fails.
Save ==
    /\ pc = "save"
    /\ \/ saved' = [saved EXCEPT ![Device] = scan[crtc[Device]]]
       \/ Fails("get_crtc") /\ UNCHANGED saved
    /\ pc' = "show"
    /\ UNCHANGED <<kernel, rest, next, list, dev, buf, crtc, front, iter, round,
                   history>>

\* The device's first picture; a failure is printed and ignored.
ShowAndSave ==
    /\ pc = "show"
    /\ SetCrtc(crtc[Device], <<Device, front[Device]>>, Device)
    /\ saved' = [saved EXCEPT ![Device] = scan'[crtc[Device]]]
    /\ Advance("save", "draw")
    /\ UNCHANGED <<dumb, fbs, mapped, rest, next, list, dev, buf, crtc, front,
                   round, history>>

ShowLast ==
    /\ pc = "show"
    /\ \/ SetCrtc(crtc[Device], <<Device, nbufs - 1>>, Device)
       \/ Fails("set_crtc") /\ UNCHANGED <<route, scan>>
    /\ Advance("save", "draw")
    /\ UNCHANGED <<dumb, fbs, mapped, rest, next, list, dev, buf, fields, round,
                   history>>

Show ==
    /\ pc = "show"
    /\ \/ SetCrtc(crtc[Device], <<Device, front[Device]>>, Device)
       \/ Fails("set_crtc") /\ UNCHANGED <<route, scan>>
    /\ Advance("save", "draw")
    /\ UNCHANGED <<dumb, fbs, mapped, rest, next, list, dev, buf, fields, round,
                   history>>

\* A round of modeset_draw starts to draw into the device's buffer; after the
\* last round comes modeset_cleanup.
Draw ==
    /\ pc = "draw"
    /\ IF round = Rounds
       THEN pc' = "cleanup" /\ UNCHANGED round
       ELSE IF list = <<>>
            THEN round' = round + 1 /\ UNCHANGED pc
            ELSE pc' = "flip" /\ UNCHANGED round
    /\ UNCHANGED <<kernel, rest, next, list, dev, buf, fields, iter, history>>

EndOfDevice ==
    /\ Advance("draw", "draw")
    /\ round' = IF iter < Len(list) THEN round ELSE round + 1
    /\ UNCHANGED <<dumb, fbs, mapped, rest, next, list, dev, buf, crtc, saved,
                   history>>

FlipAlways ==
    /\ pc = "flip"
    /\ IF nbufs = 1
       THEN UNCHANGED <<route, scan, front>>
       ELSE /\ \/ SetCrtc(crtc[Device], Back(Device), Device)
               \/ Fails("set_crtc") /\ UNCHANGED <<route, scan>>
            /\ front' = [front EXCEPT ![Device] = 1 - @]
    /\ EndOfDevice

\* The drawing is done.  With two buffers the new one is shown, and becomes
\* the front buffer only if the kernel took it.
Flip ==
    /\ pc = "flip"
    /\ IF nbufs = 1
       THEN UNCHANGED <<route, scan, front>>
       ELSE \/ /\ SetCrtc(crtc[Device], Back(Device), Device)
               /\ front' = [front EXCEPT ![Device] = 1 - @]
            \/ Fails("set_crtc") /\ UNCHANGED <<route, scan, front>>
    /\ EndOfDevice

-----------------------------------------------------------------------------
(* modeset_cleanup, and the end of the program.                            *)

\* The kernel takes a saved configuration back only if it has a framebuffer.
RestoreCrtc(d) ==
    \/ /\ saved[d] # Off
       /\ SetCrtc(crtc[d], saved[d], d)
       /\ restored' = restored \cup {d}
    \/ /\ saved[d] = Off \/ Fails("set_crtc")
       /\ UNCHANGED <<route, scan, restored>>

\* Unlink the first device and restore its CRTC, through saved_crtc even if it
\* is NULL; go on to destroy its buffers, the last one first.
Cleanup ==
    /\ pc = "cleanup"
    /\ IF list = <<>>
       THEN /\ pc' = "close"
            /\ UNCHANGED <<route, scan, restored, list, dev, buf, ret>>
       ELSE /\ list' = Tail(list)
            /\ dev' = Head(list)
            /\ buf' = nbufs - 1
            /\ ret' = "cleanup"
            /\ IF saved[Head(list)] = Null
               THEN pc' = "killed" /\ UNCHANGED <<route, scan, restored>>
               ELSE pc' = "munmap" /\ RestoreCrtc(Head(list))
    /\ UNCHANGED <<dumb, fbs, mapped, nbufs, next, fields, iter, round, oldScan>>

\* close(fd), or the death of the process: the kernel frees what is left.
Exit ==
    /\ pc \in {"close", "killed"}
    /\ pc' = IF pc = "close" THEN "done" ELSE "crashed"
    /\ RemoveFbs(fbs)
    /\ dumb' = {} /\ mapped' = {}
    /\ list' = <<>> /\ dev' = Nobody
    /\ UNCHANGED <<rest, next, buf, fields, iter, round, history>>

Ended == pc \in {"done", "crashed"} /\ UNCHANGED vars

Next ==
    \/ Start \/ GetConnector \/ Prepared \/ SetupCrtc
    \/ CreateDumb \/ AddFB \/ MapDumb \/ Mmap \/ ErrFb \/ ErrDestroy
    \/ Munmap \/ RmFB \/ DestroyDumb
    \/ Save \/ Show \/ Draw \/ Flip \/ Cleanup \/ Exit
    \/ Ended

Spec == Init /\ [][Next]_vars

-----------------------------------------------------------------------------
(* What the programs must keep true.                                       *)

BuffersOf(d) == {d} \X (0..nbufs-1)

\* No CRTC is given to two devices, although modeset_find_crtc looks for one in
\* two ways, with encoders that may fail to be read, and the devices set up
\* before may have been dropped again.
DistinctCrtcs ==
    \A i, j \in DOMAIN list : i # j => crtc[list[i]] # crtc[list[j]]

\* modeset-double-buffered.c never draws into a buffer that some CRTC scans
\* out, whatever drmModeSetCrtc calls failed before.
NeverDrawFront ==
    (nbufs = 2 /\ pc = "flip") => \A k \in Crtc : scan[k] # Back(Device)

\* While the program draws, a CRTC that shows a device's buffer is that
\* device's CRTC and shows its front buffer: front_buf follows the screen.
FrontIsShown ==
    \A d \in Listed, k \in Crtc :
        scan[k] \in BuffersOf(d) => k = crtc[d] /\ scan[k] = <<d, front[d]>>

\* A linked device has all of its buffers, each with framebuffer and mapping:
\* what the draw loop and the flips rely on without a check.
BuffersComplete ==
    \A d \in Listed : BuffersOf(d) \subseteq dumb \cap fbs \cap mapped

\* Once a device is freed nothing of it is left in the kernel, whichever call
\* of its setup failed: every buffer, framebuffer and mapping belongs to a
\* device the program still has a pointer to.
NoLeak ==
    \A b \in dumb \cup fbs \cup mapped : b[1] \in Listed \cup {dev}

\* When the program is through, every CRTC whose saved configuration was taken
\* back shows that configuration still: destroying the buffers of this device
\* and of the others has not turned it off.
ResetToSaved ==
    pc = "done" => \A d \in restored : scan[crtc[d]] = saved[d]

\* modeset.c:143 of saved_crtc: "the configuration of the crtc before we
\* changed it".
SavedBeforeChange ==
    \A d \in Listed :
        saved[d] # Null => saved[d] = oldScan[crtc[d]]

=============================================================================
