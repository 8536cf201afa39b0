---------------------------- MODULE ModesetProof ----------------------------
(***************************************************************************)
(* Proofs about Modeset for any hardware: any number of connectors,        *)
(* encoders, CRTCs and rounds, and any set of calls that may fail.         *)
(*                                                                         *)
(* One inductive invariant carries all the properties.  Beyond them it     *)
(* says where the loops are (Loops), what modeset_prepare has dealt with   *)
(* (Prepare), how much of a buffer exists at each step of its creation and *)
(* destruction (Pieces), what has been saved (Pictures), and that a        *)
(* restored CRTC drives the connector it was restored for (Restored).      *)
(***************************************************************************)
EXTENDS Modeset, TLAPS

CreateLabels == {"create", "add_fb", "map_dumb", "mmap"}
SetupLabels == CreateLabels \cup {"find_crtc", "err_fb", "err_destroy"}
DestroyLabels == {"munmap", "rm_fb", "destroy"}
DeviceLabels == SetupLabels \cup DestroyLabels
PrepareLabels == DeviceLabels \cup {"start", "connector"}
CleanupLabels == {"cleanup", "killed", "close", "done", "crashed"}

\* Connectors the loop of modeset_prepare has come to.
Handled == {ConnectorOrder[j] : j \in 1..next-1}

Loops ==
    /\ pc \in {"save", "show", "flip"} => iter \in 1..Len(list)
    /\ (pc = "draw" /\ list # <<>>) => iter \in 1..Len(list)
    /\ pc = "flip" => round < Rounds

Prepare ==
    /\ pc \in PrepareLabels \ DestroyLabels => ret = "connector"
    /\ (pc \in PrepareLabels /\ ret = "connector") =>
          /\ \A k \in Crtc : scan[k] \notin Buffer
          /\ \A i \in DOMAIN list : list[i] \in Handled
    /\ pc \in SetupLabels => dev \in Handled
    /\ pc \in DeviceLabels =>
          dev \in Connector /\ \A i \in DOMAIN list : list[i] # dev
    /\ pc \notin DeviceLabels \cup {"killed"} => dev = Nobody
    /\ pc \in CreateLabels =>
          /\ crtc[dev] \in Crtc
          /\ \A i \in DOMAIN list : crtc[dev] # crtc[list[i]]
    /\ \A i \in DOMAIN list : crtc[list[i]] \in Crtc

Pieces ==
    /\ \A b \in dumb \cup fbs \cup mapped : b[2] < nbufs
    /\ pc = "find_crtc" => \A b \in dumb \cup fbs \cup mapped : b[1] # dev
    /\ pc \in DeviceLabels \ {"find_crtc"} =>
          /\ buf < nbufs
          /\ \A i \in {0, 1} :
                /\ <<dev, i>> \in dumb =>
                      i < buf \/ (i = buf /\ pc # "create")
                /\ <<dev, i>> \in fbs =>
                      i < buf \/ (i = buf /\ pc \in {"map_dumb", "mmap", "err_fb",
                                                     "munmap", "rm_fb"})
                /\ <<dev, i>> \in mapped => i < buf \/ (i = buf /\ pc = "munmap")
    /\ pc \in CreateLabels =>
          /\ \A i \in {0, 1} : i < buf => <<dev, i>> \in dumb \cap fbs \cap mapped
          /\ pc # "create" => <<dev, buf>> \in dumb
          /\ pc \in {"map_dumb", "mmap"} => <<dev, buf>> \in fbs

Pictures ==
    /\ \A d \in Connector : saved[d] \in {Old, Off, Null}
    /\ pc \in {"save", "show"} =>
          \A j \in iter..Len(list) : scan[crtc[list[j]]] \notin Buffer

Restored ==
    /\ pc \notin CleanupLabels \cup DestroyLabels => restored = {}
    /\ ret = "connector" /\ pc \in DestroyLabels => restored = {}
    /\ \A d \in restored :
          /\ crtc[d] \in Crtc
          /\ saved[d] # Null
          /\ route[d] = crtc[d]
          /\ scan[crtc[d]] = saved[d]
          /\ \A i \in DOMAIN list : crtc[list[i]] # crtc[d]

\* FrontIsShown, BuffersComplete and NoLeak, one buffer at a time.
Shown ==
    \A i \in DOMAIN list, k \in Crtc, n \in {0, 1} :
        scan[k] = <<list[i], n>> => k = crtc[list[i]] /\ n = front[list[i]]

Complete ==
    \A i \in DOMAIN list, n \in {0, 1} :
        n < nbufs => <<list[i], n>> \in dumb \cap fbs \cap mapped

Owned ==
    \A b \in dumb \cup fbs \cup mapped :
        b[1] = dev \/ \E i \in DOMAIN list : b[1] = list[i]

IInv ==
    /\ TypeOK /\ Loops /\ Prepare /\ Pieces /\ Pictures /\ Restored
    /\ DistinctCrtcs /\ Shown /\ Complete /\ Owned

-----------------------------------------------------------------------------
(* What the two kernel calls do, without their CASEs.                      *)

LEMMA SetCrtcEffect ==
    ASSUME TypeOK, NEW k \in Crtc, NEW p \in Picture, NEW c \in Connector,
           SetCrtc(k, p, c)
    PROVE  /\ route' \in [Connector -> Crtc \cup {NoCrtc}]
           /\ scan' \in [Crtc -> Picture]
           /\ route'[c] = k
           /\ scan'[k] = p
           /\ \A d \in Connector \ {c} : route[d] # k => route'[d] = route[d]
           /\ \A j \in Crtc \ {k} : scan'[j] \in {scan[j], Off}
           /\ \A j \in Crtc \ {k} :
                 (\E d \in Connector : route'[d] = j) => scan'[j] = scan[j]
  BY DEF TypeOK, SetCrtc, Picture

LEMMA RemoveFbsEffect ==
    ASSUME TypeOK, NEW S \in SUBSET Buffer, RemoveFbs(S)
    PROVE  /\ route' \in [Connector -> Crtc \cup {NoCrtc}]
           /\ scan' \in [Crtc -> Picture]
           /\ fbs' = fbs \ S
           /\ \A j \in Crtc : scan'[j] \in {scan[j], Off}
           /\ \A j \in Crtc : scan[j] \notin S => scan'[j] = scan[j]
           /\ \A d \in Connector :
                 (route[d] \in Crtc /\ scan[route[d]] \notin S) =>
                     route'[d] = route[d]
  BY ModesetAssumption DEF TypeOK, RemoveFbs, Picture

-----------------------------------------------------------------------------
(* The list grows and shrinks at its head.                                 *)

LEMMA Push ==
    ASSUME NEW s \in Seq(Connector), NEW d \in Connector
    PROVE  LET r == <<d>> \o s IN
           /\ r \in Seq(Connector)
           /\ Len(r) = Len(s) + 1
           /\ r[1] = d
           /\ 1 \in DOMAIN r
           /\ \A i \in DOMAIN r : i = 1 \/ (i - 1 \in DOMAIN s /\ r[i] = s[i - 1])
           /\ \A i \in DOMAIN s : i + 1 \in DOMAIN r /\ r[i + 1] = s[i]
  OBVIOUS

LEMMA Pop ==
    ASSUME NEW s \in Seq(Connector), s # <<>>
    PROVE  /\ Head(s) = s[1]
           /\ 1 \in DOMAIN s
           /\ Head(s) \in Connector
           /\ Tail(s) \in Seq(Connector)
           /\ \A i \in DOMAIN Tail(s) :
                 i + 1 \in DOMAIN s /\ i + 1 # 1 /\ Tail(s)[i] = s[i + 1]
           /\ \A i \in DOMAIN s :
                 i = 1 \/ (i - 1 \in DOMAIN Tail(s) /\ Tail(s)[i - 1] = s[i])
  OBVIOUS

LEMMA Pairs ==
    \A b \in Buffer :
        b = <<b[1], b[2]>> /\ b[1] \in Connector /\ b[2] \in {0, 1}
  BY DEF Buffer

-----------------------------------------------------------------------------
(* What the longer actions do, as facts about the elements of the list.    *)

LEMMA GetConnectorEffect ==
    ASSUME IInv, GetConnector
    PROVE  /\ pc = "connector"
           /\ next' = next + 1 /\ next' \in 1..Len(ConnectorOrder) + 1
           /\ UNCHANGED <<route, scan, dumb, fbs, mapped, nbufs, ret, list, buf,
                          crtc, front, saved, iter, round, oldScan, restored>>
           /\ \/ UNCHANGED <<pc, dev>>
              \/ /\ pc' = "find_crtc"
                 /\ dev' \in Connector
                 /\ dev' = ConnectorOrder[next]
                 /\ \A i \in DOMAIN list : list[i] # dev'
                 /\ \A b \in dumb \cup fbs \cup mapped : b[1] # dev'
                 /\ dev' \in Handled'
           /\ \A b \in dumb \cup fbs \cup mapped :
                 \E i \in DOMAIN list : b[1] = list[i]
           /\ \A d \in Handled : d \in Handled'
<1>1. /\ pc = "connector" /\ next \in 1..Len(ConnectorOrder) /\ next' = next + 1
      /\ next' \in 1..Len(ConnectorOrder) + 1
     BY ModesetAssumption DEF IInv, TypeOK, GetConnector
<1>2. ConnectorOrder[next] \in Connector
     BY <1>1, ModesetAssumption
<1>3. \A i \in DOMAIN list : list[i] # ConnectorOrder[next]
  <2> SUFFICES ASSUME NEW i \in DOMAIN list, list[i] = ConnectorOrder[next]
               PROVE  FALSE
       OBVIOUS
  <2>1. list[i] \in Handled
       BY <1>1 DEF IInv, Prepare, PrepareLabels, DeviceLabels, SetupLabels,
                   CreateLabels, DestroyLabels
  <2>2. PICK j \in 1..next-1 : list[i] = ConnectorOrder[j]
       BY <2>1 DEF Handled
  <2>3. ConnectorOrder \in Seq(Connector) /\ next \in DOMAIN ConnectorOrder
       BY <1>1, ModesetAssumption
  <2>4. j \in DOMAIN ConnectorOrder /\ j # next
       BY <1>1, <2>3
  <2> QED
       BY <2>2, <2>3, <2>4, ModesetAssumption
<1>4. \A b \in dumb \cup fbs \cup mapped : \E i \in DOMAIN list : b[1] = list[i]
  <2>1. dev = Nobody
       BY <1>1 DEF IInv, Prepare, DeviceLabels, SetupLabels, CreateLabels,
                   DestroyLabels
  <2>2. \A b \in dumb \cup fbs \cup mapped : b[1] \in Connector
       BY Pairs DEF IInv, TypeOK
  <2> QED
       BY <2>1, <2>2, ModesetAssumption DEF IInv, Owned
<1>5. ConnectorOrder[next] \in Handled' /\ \A d \in Handled : d \in Handled'
     BY <1>1 DEF Handled
<1> QED
     BY <1>1, <1>2, <1>3, <1>4, <1>5 DEF GetConnector, kernel, rest, fields, history

LEMMA FindCrtcEffect ==
    ASSUME NEW c \in Connector, FindCrtc(c)
    PROVE  \/ \E k \in Unused : crtc' = [crtc EXCEPT ![c] = k] /\ pc' = "create"
           \/ crtc' = crtc /\ pc' = "connector"
  BY DEF FindCrtc, FirstMatch

LEMMA SetupCrtcEffect ==
    ASSUME IInv, SetupCrtc
    PROVE  /\ pc = "find_crtc"
           /\ UNCHANGED <<route, scan, dumb, fbs, mapped, nbufs, ret, next, list,
                          front, saved, iter, round, oldScan, restored>>
           /\ buf' = 0
           /\ \A d \in Connector : d # dev => crtc'[d] = crtc[d]
           /\ crtc' \in [Connector -> Crtc \cup {NoCrtc}]
           /\ dev \in Connector
           /\ \A i \in DOMAIN list :
                 list[i] # dev /\ crtc'[list[i]] = crtc[list[i]]
           /\ \/ /\ pc' = "create" /\ dev' = dev
                 /\ crtc'[dev] \in Crtc
                 /\ \A i \in DOMAIN list : crtc'[dev] # crtc[list[i]]
              \/ pc' = "connector" /\ dev' = Nobody
<1>1. dev \in Connector /\ crtc \in [Connector -> Crtc \cup {NoCrtc}]
     BY DEF IInv, TypeOK, Prepare, SetupCrtc, DeviceLabels, SetupLabels
<1>2. \/ \E k \in Unused : crtc' = [crtc EXCEPT ![dev] = k] /\ pc' = "create"
      \/ crtc' = crtc /\ pc' = "connector"
     BY <1>1, FindCrtcEffect DEF SetupCrtc
<1>3. \A i \in DOMAIN list : list[i] # dev /\ list[i] \in Connector
     BY DEF IInv, TypeOK, Prepare, SetupCrtc, DeviceLabels, SetupLabels
<1> QED
     BY <1>1, <1>2, <1>3 DEF SetupCrtc, Unused, Listed, kernel, rest, history

\* The device a loop over the list is at.
LEMMA DeviceAt ==
    ASSUME IInv, pc \in {"save", "show", "flip"}
    PROVE  /\ iter \in 1..Len(list)
           /\ iter \in DOMAIN list
           /\ Device = list[iter]
           /\ Device \in Connector
           /\ crtc[Device] \in Crtc
<1>1. iter \in 1..Len(list) /\ list \in Seq(Connector)
     BY DEF IInv, TypeOK, Loops
<1> QED
     BY <1>1 DEF IInv, Prepare, Device

LEMMA SaveEffect ==
    ASSUME IInv, Save
    PROVE  /\ pc = "save" /\ pc' = "show"
           /\ UNCHANGED <<route, scan, dumb, fbs, mapped, nbufs, ret, next, list,
                          dev, buf, crtc, front, iter, round, oldScan, restored>>
           /\ saved' \in [Connector -> {Old, Off, Null}]
           /\ saved' \in [Connector -> Picture \cup {Null}]
<1>1. scan[crtc[Device]] \in {Old, Off}
  <2>1. iter \in iter..Len(list) /\ scan[crtc[Device]] \in Picture
       BY DeviceAt DEF IInv, TypeOK, Save
  <2> QED
       BY <2>1, DeviceAt DEF IInv, Pictures, Save, Picture
<1>2. saved \in [Connector -> {Old, Off, Null}]
     BY DEF IInv, TypeOK, Pictures
<1>3. saved' \in [Connector -> {Old, Off, Null}]
     BY <1>1, <1>2 DEF Save
<1> QED
     BY <1>3 DEF Save, Picture, kernel, rest, history

LEMMA MmapEffect ==
    ASSUME IInv, Mmap
    PROVE  /\ pc = "mmap"
           /\ <<dev, buf>> \in Buffer
           /\ <<dev, buf>> \in dumb /\ <<dev, buf>> \in fbs
           /\ \A n \in {0, 1} : n < buf => <<dev, n>> \in dumb \cap fbs \cap mapped
           /\ buf \in {0, 1} /\ nbufs \in {1, 2}
           /\ \A i \in DOMAIN list : list[i] # dev /\ crtc[list[i]] # crtc[dev]
           /\ \A k \in Crtc : scan[k] \notin Buffer
           /\ dev \in Handled /\ crtc[dev] \in Crtc
           /\ dev \in Connector
           /\ \A i \in DOMAIN list : i \in Nat
           /\ UNCHANGED <<route, scan, dumb, fbs, ret, nbufs, next, crtc, front,
                          saved, iter, round, oldScan, restored>>
           /\ \/ pc' = "err_fb" /\ UNCHANGED <<mapped, list, dev, buf>>
              \/ /\ mapped' = mapped \cup {<<dev, buf>>}
                 /\ buf + 1 < nbufs
                 /\ pc' = "create" /\ buf' = buf + 1 /\ buf' \in {0, 1}
                 /\ UNCHANGED <<list, dev>>
              \/ /\ mapped' = mapped \cup {<<dev, buf>>}
                 /\ \A n \in {0, 1} : n < nbufs =>
                       <<dev, n>> \in dumb \cap fbs \cap mapped'
                 /\ pc' = "connector" /\ dev' = Nobody
                 /\ UNCHANGED buf
                 /\ list' \in Seq(Connector)
                 /\ 1 \in DOMAIN list' /\ list'[1] = dev
                 /\ \A i \in DOMAIN list' :
                       /\ list'[i] \in Connector
                       /\ i = 1 \/ (i - 1 \in DOMAIN list /\ list'[i] = list[i - 1])
                 /\ \A i \in DOMAIN list :
                       i + 1 \in DOMAIN list' /\ list'[i + 1] = list[i]
<1>1. dev \in Connector /\ list \in Seq(Connector)
     BY DEF IInv, TypeOK, Prepare, DeviceLabels, SetupLabels, CreateLabels, Mmap
<1>2. LET r == <<dev>> \o list IN
      /\ r \in Seq(Connector)
      /\ r[1] = dev
      /\ 1 \in DOMAIN r
      /\ \A i \in DOMAIN r :
            /\ r[i] \in Connector
            /\ i = 1 \/ (i - 1 \in DOMAIN list /\ r[i] = list[i - 1])
      /\ \A i \in DOMAIN list : i + 1 \in DOMAIN r /\ r[i + 1] = list[i]
     BY <1>1, Push
<1>3. /\ <<dev, buf>> \in Buffer
      /\ buf \in {0, 1} /\ nbufs \in {1, 2}
     BY <1>1 DEF IInv, TypeOK, Buffer
<1>4. /\ <<dev, buf>> \in dumb /\ <<dev, buf>> \in fbs
      /\ \A n \in {0, 1} : n < buf => <<dev, n>> \in dumb \cap fbs \cap mapped
     BY DEF IInv, Pieces, CreateLabels, Mmap
<1>5. /\ dev \in Handled /\ crtc[dev] \in Crtc
      /\ \A i \in DOMAIN list : list[i] # dev /\ crtc[list[i]] # crtc[dev]
      /\ \A k \in Crtc : scan[k] \notin Buffer
     BY DEF IInv, Prepare, PrepareLabels, DeviceLabels, SetupLabels, CreateLabels,
            DestroyLabels, Mmap
<1>6. \A i \in DOMAIN list : i \in Nat
     BY <1>1
<1>7. \/ pc' = "err_fb" /\ UNCHANGED <<mapped, list, dev, buf>>
      \/ mapped' = mapped \cup {<<dev, buf>>} /\ Created
     BY DEF Mmap, This
<1>8. /\ pc = "mmap"
      /\ UNCHANGED <<route, scan, dumb, fbs, ret, nbufs, next, crtc, front,
                     saved, iter, round, oldScan, restored>>
     BY DEF Mmap, rest, fields, history
<1>9. CASE pc' = "err_fb" /\ UNCHANGED <<mapped, list, dev, buf>>
     BY <1>1, <1>3, <1>4, <1>5, <1>6, <1>8, <1>9
<1>10. CASE mapped' = mapped \cup {<<dev, buf>>} /\ Created /\ buf + 1 < nbufs
  <2>1. pc' = "create" /\ buf' = buf + 1 /\ UNCHANGED <<list, dev>>
       BY <1>10 DEF Created
  <2>2. buf' \in {0, 1}
       BY <2>1, <1>3, <1>10
  <2> QED
       BY <1>1, <1>3, <1>4, <1>5, <1>6, <1>8, <1>10, <2>1, <2>2
<1>11. CASE mapped' = mapped \cup {<<dev, buf>>} /\ Created /\ ~(buf + 1 < nbufs)
  <2>1. list' = <<dev>> \o list /\ dev' = Nobody /\ pc' = "connector" /\ buf' = buf
       BY <1>11 DEF Created
  <2>2. \A n \in {0, 1} : n < nbufs => n < buf \/ n = buf
       BY <1>3, <1>11
  <2>3. \A n \in {0, 1} : n < nbufs => <<dev, n>> \in dumb \cap fbs \cap mapped'
       BY <1>4, <1>11, <2>2
  <2> QED
       BY <1>1, <1>2, <1>3, <1>4, <1>5, <1>6, <1>8, <1>11, <2>1, <2>3
<1> QED
     BY <1>7, <1>9, <1>10, <1>11

LEMMA ErrDestroyEffect ==
    ASSUME IInv, ErrDestroy
    PROVE  /\ pc = "err_destroy"
           /\ UNCHANGED <<route, scan, fbs, mapped, nbufs, ret, next, list, crtc,
                          front, saved, iter, round, oldScan, restored>>
           /\ dumb' = dumb \ {<<dev, buf>>}
           /\ dev \in Connector /\ buf \in {0, 1} /\ nbufs \in {1, 2}
           /\ \A i \in {0, 1} :
                 /\ <<dev, i>> \in dumb' => i < buf
                 /\ <<dev, i>> \in fbs => i < buf
                 /\ <<dev, i>> \in mapped => i < buf
           /\ \A i \in DOMAIN list : list[i] # dev
           /\ \A b \in dumb \cup fbs \cup mapped :
                 b = <<b[1], b[2]>> /\ b[1] \in Connector /\ b[2] \in {0, 1}
           /\ \A b \in dumb' \cup fbs \cup mapped : b[1] = dev => b[2] < buf
           /\ \/ buf = 1 /\ pc' = "munmap" /\ buf' = 0 /\ dev' = dev
              \/ /\ buf = 0 /\ pc' = "connector" /\ buf' = buf /\ dev' = Nobody
                 /\ \A b \in dumb' \cup fbs \cup mapped : b[1] # dev
<1>1. /\ dev \in Connector /\ buf \in {0, 1} /\ nbufs \in {1, 2}
      /\ \A i \in DOMAIN list : list[i] # dev
     BY DEF IInv, TypeOK, Prepare, ErrDestroy, DeviceLabels, SetupLabels
<1>2. \A b \in dumb \cup fbs \cup mapped :
         b = <<b[1], b[2]>> /\ b[1] \in Connector /\ b[2] \in {0, 1}
     BY Pairs DEF IInv, TypeOK
<1>3. \A i \in {0, 1} :
         /\ <<dev, i>> \in dumb => i < buf \/ i = buf
         /\ <<dev, i>> \in fbs => i < buf
         /\ <<dev, i>> \in mapped => i < buf
     BY DEF IInv, Pieces, ErrDestroy, DeviceLabels, SetupLabels
<1>4. dumb' = dumb \ {<<dev, buf>>}
     BY DEF ErrDestroy, This
<1>5. \A b \in dumb' \cup fbs \cup mapped : b[1] = dev => b[2] < buf
     BY <1>1, <1>2, <1>3, <1>4
<1> QED
     BY <1>1, <1>2, <1>3, <1>4, <1>5
     DEF ErrDestroy, SetupFailed, Drop, rest, fields, history

LEMMA DestroyDumbEffect ==
    ASSUME IInv, DestroyDumb
    PROVE  /\ pc = "destroy"
           /\ UNCHANGED <<route, scan, fbs, mapped, nbufs, ret, next, list, crtc,
                          front, saved, iter, round, oldScan, restored>>
           /\ dumb' = dumb \ {<<dev, buf>>}
           /\ dev \in Connector /\ buf \in {0, 1} /\ nbufs \in {1, 2}
           /\ ret \in {"connector", "cleanup"}
           /\ \A i \in {0, 1} :
                 /\ <<dev, i>> \in dumb' => i < buf
                 /\ <<dev, i>> \in fbs => i < buf
                 /\ <<dev, i>> \in mapped => i < buf
           /\ \A i \in DOMAIN list : list[i] # dev
           /\ \A b \in dumb \cup fbs \cup mapped :
                 b = <<b[1], b[2]>> /\ b[1] \in Connector /\ b[2] \in {0, 1}
           /\ \A b \in dumb' \cup fbs \cup mapped : b[1] = dev => b[2] < buf
           /\ \/ buf = 1 /\ pc' = "munmap" /\ buf' = 0 /\ dev' = dev
              \/ /\ buf = 0 /\ pc' = ret /\ buf' = buf /\ dev' = Nobody
                 /\ \A b \in dumb' \cup fbs \cup mapped : b[1] # dev
<1>1. /\ dev \in Connector /\ buf \in {0, 1} /\ nbufs \in {1, 2}
      /\ ret \in {"connector", "cleanup"}
      /\ \A i \in DOMAIN list : list[i] # dev
     BY DEF IInv, TypeOK, Prepare, DestroyDumb, DeviceLabels, DestroyLabels
<1>2. \A b \in dumb \cup fbs \cup mapped :
         b = <<b[1], b[2]>> /\ b[1] \in Connector /\ b[2] \in {0, 1}
     BY Pairs DEF IInv, TypeOK
<1>3. \A i \in {0, 1} :
         /\ <<dev, i>> \in dumb => i < buf \/ i = buf
         /\ <<dev, i>> \in fbs => i < buf
         /\ <<dev, i>> \in mapped => i < buf
     BY DEF IInv, Pieces, DestroyDumb, DeviceLabels, DestroyLabels
<1>4. dumb' = dumb \ {<<dev, buf>>}
     BY DEF DestroyDumb, This
<1>5. \A b \in dumb' \cup fbs \cup mapped : b[1] = dev => b[2] < buf
     BY <1>1, <1>2, <1>3, <1>4
<1> QED
     BY <1>1, <1>2, <1>3, <1>4, <1>5
     DEF DestroyDumb, This, rest, fields, history

\* Taking the current buffer off the screen touches no restored CRTC.
LEMMA RemoveThisEffect ==
    ASSUME IInv, pc \in {"err_fb", "rm_fb"}, RemoveFbs({This})
    PROVE  /\ route' \in [Connector -> Crtc \cup {NoCrtc}]
           /\ scan' \in [Crtc -> Picture]
           /\ <<dev, buf>> \in Buffer
           /\ fbs' = fbs \ {<<dev, buf>>}
           /\ \A j \in Crtc : scan'[j] = scan[j] \/ scan'[j] = Off
           /\ Off \notin Buffer
           /\ \A i \in DOMAIN list : list[i] # dev
           /\ \A d \in restored : route'[d] = crtc[d] /\ scan'[crtc[d]] = saved[d]
<1>1. /\ dev \in Connector /\ buf \in {0, 1}
      /\ \A i \in DOMAIN list : list[i] # dev
     BY DEF IInv, TypeOK, Prepare, DeviceLabels, SetupLabels, DestroyLabels
<1>2. <<dev, buf>> \in Buffer
     BY <1>1 DEF Buffer
<1>3. Off \notin Buffer /\ Old \notin Buffer
     BY ModesetAssumption
<1>4. /\ route' \in [Connector -> Crtc \cup {NoCrtc}]
      /\ scan' \in [Crtc -> Picture]
      /\ fbs' = fbs \ {<<dev, buf>>}
      /\ \A j \in Crtc : scan'[j] \in {scan[j], Off}
      /\ \A j \in Crtc : scan[j] # <<dev, buf>> => scan'[j] = scan[j]
      /\ \A d \in Connector :
            (route[d] \in Crtc /\ scan[route[d]] # <<dev, buf>>) =>
                route'[d] = route[d]
     BY <1>2, RemoveFbsEffect DEF IInv, This
<1>5. \A d \in restored : route'[d] = crtc[d] /\ scan'[crtc[d]] = saved[d]
  <2> SUFFICES ASSUME NEW d \in restored
               PROVE  route'[d] = crtc[d] /\ scan'[crtc[d]] = saved[d]
       OBVIOUS
  <2>1. /\ d \in Connector /\ crtc[d] \in Crtc /\ route[d] = crtc[d]
        /\ scan[crtc[d]] = saved[d] /\ saved[d] \in {Old, Off}
       BY DEF IInv, TypeOK, Restored, Pictures
  <2> QED
       BY <2>1, <1>2, <1>3, <1>4
<1> QED
     BY <1>1, <1>2, <1>3, <1>4, <1>5

LEMMA ErrFbEffect ==
    ASSUME IInv, ErrFb
    PROVE  /\ pc = "err_fb" /\ pc' = "err_destroy"
           /\ UNCHANGED <<dumb, mapped, ret, nbufs, next, list, dev, buf, crtc,
                          front, saved, iter, round, oldScan, restored>>
           /\ route' \in [Connector -> Crtc \cup {NoCrtc}]
           /\ scan' \in [Crtc -> Picture]
           /\ <<dev, buf>> \in Buffer
           /\ fbs' = fbs \ {<<dev, buf>>}
           /\ \A j \in Crtc : scan'[j] = scan[j] \/ scan'[j] = Off
           /\ Off \notin Buffer
           /\ \A i \in DOMAIN list : list[i] # dev
           /\ \A d \in restored : route'[d] = crtc[d] /\ scan'[crtc[d]] = saved[d]
  BY RemoveThisEffect DEF ErrFb, rest, fields, history

LEMMA RmFBEffect ==
    ASSUME IInv, RmFB
    PROVE  /\ pc = "rm_fb" /\ pc' = "destroy"
           /\ UNCHANGED <<dumb, mapped, ret, nbufs, next, list, dev, buf, crtc,
                          front, saved, iter, round, oldScan, restored>>
           /\ route' \in [Connector -> Crtc \cup {NoCrtc}]
           /\ scan' \in [Crtc -> Picture]
           /\ <<dev, buf>> \in Buffer
           /\ fbs' = fbs \ {<<dev, buf>>}
           /\ \A j \in Crtc : scan'[j] = scan[j] \/ scan'[j] = Off
           /\ Off \notin Buffer
           /\ \A i \in DOMAIN list : list[i] # dev
           /\ \A d \in restored : route'[d] = crtc[d] /\ scan'[crtc[d]] = saved[d]
  BY RemoveThisEffect DEF RmFB, rest, fields, history

LEMMA ShowEffect ==
    ASSUME IInv, Show
    PROVE  /\ pc = "show"
           /\ UNCHANGED <<dumb, fbs, mapped, ret, nbufs, next, list, dev, buf, crtc,
                          front, saved, round, oldScan, restored>>
           /\ route' \in [Connector -> Crtc \cup {NoCrtc}]
           /\ scan' \in [Crtc -> Picture]
           /\ iter \in 1..Len(list) /\ Len(list) \in Nat /\ list \in Seq(Connector)
           /\ \/ iter < Len(list) /\ pc' = "save" /\ iter' = iter + 1
              \/ pc' = "draw" /\ iter' = 1
           /\ \A k \in Crtc :
                 \/ scan'[k] = scan[k] \/ scan'[k] = Off
                 \/ /\ k = crtc[list[iter]]
                    /\ scan'[k] = <<list[iter], front[list[iter]]>>
           /\ \A j \in iter + 1..Len(list) : crtc[list[j]] # crtc[list[iter]]
           /\ Off \notin Buffer
<1>1. /\ iter \in 1..Len(list) /\ iter \in DOMAIN list /\ Device = list[iter]
      /\ Device \in Connector /\ crtc[Device] \in Crtc
     BY DeviceAt DEF Show
<1>2. <<Device, front[Device]>> \in Picture
     BY <1>1 DEF IInv, TypeOK, Picture, Buffer
<1>3. /\ route' \in [Connector -> Crtc \cup {NoCrtc}]
      /\ scan' \in [Crtc -> Picture]
      /\ \A k \in Crtc :
            \/ scan'[k] = scan[k] \/ scan'[k] = Off
            \/ k = crtc[Device] /\ scan'[k] = <<Device, front[Device]>>
  <2>1. CASE SetCrtc(crtc[Device], <<Device, front[Device]>>, Device)
       BY <1>1, <1>2, <2>1, SetCrtcEffect DEF IInv
  <2>2. CASE UNCHANGED <<route, scan>>
       BY <2>2 DEF IInv, TypeOK
  <2> QED
       BY <2>1, <2>2 DEF Show
<1>4. list \in Seq(Connector) /\ Len(list) \in Nat /\ iter \in Nat
     BY DEF IInv, TypeOK
<1>5. \A j \in iter + 1..Len(list) : j \in DOMAIN list /\ j # iter
     BY <1>1, <1>4
<1>6. \A j \in iter + 1..Len(list) : crtc[list[j]] # crtc[list[iter]]
     BY <1>1, <1>5 DEF IInv, DistinctCrtcs
<1> QED
     BY <1>1, <1>3, <1>4, <1>6, ModesetAssumption
     DEF Show, Advance, rest, fields, history

LEMMA FlipEffect ==
    ASSUME IInv, Flip
    PROVE  /\ pc = "flip" /\ pc' = "draw"
           /\ UNCHANGED <<dumb, fbs, mapped, ret, nbufs, next, list, dev, buf, crtc,
                          saved, oldScan, restored>>
           /\ route' \in [Connector -> Crtc \cup {NoCrtc}]
           /\ scan' \in [Crtc -> Picture]
           /\ front' \in [Connector -> {0, 1}]
           /\ round' \in 0..Rounds
           /\ iter' \in 1..Len(list) /\ iter' \in Nat
           /\ \/ UNCHANGED <<scan, front>>
              \/ \E d \in Connector :
                    /\ scan'[crtc[d]] = <<d, front'[d]>>
                    /\ \A c \in Connector : c # d => front'[c] = front[c]
                    /\ \A k \in Crtc : k # crtc[d] =>
                          scan'[k] = scan[k] \/ scan'[k] = Off
           /\ Off \notin Buffer
<1>1. /\ iter \in 1..Len(list) /\ iter \in DOMAIN list /\ Device = list[iter]
      /\ Device \in Connector /\ crtc[Device] \in Crtc
     BY DeviceAt DEF Flip
<1>2. /\ list \in Seq(Connector) /\ Len(list) \in Nat
      /\ front \in [Connector -> {0, 1}]
      /\ round \in 0..Rounds /\ round < Rounds /\ Rounds \in Nat
     BY ModesetAssumption DEF IInv, TypeOK, Loops, Flip
<1>3. /\ iter' \in 1..Len(list) /\ iter' \in Nat
      /\ round' \in 0..Rounds /\ pc' = "draw"
     BY <1>1, <1>2 DEF Flip, EndOfDevice, Advance
<1>4. CASE UNCHANGED <<route, scan, front>>
     BY <1>2, <1>3, <1>4, ModesetAssumption
     DEF IInv, TypeOK, Flip, EndOfDevice, rest, history
<1>5. CASE /\ nbufs # 1
           /\ SetCrtc(crtc[Device], Back(Device), Device)
           /\ front' = [front EXCEPT ![Device] = 1 - @]
  <2>1. /\ front' \in [Connector -> {0, 1}]
        /\ front'[Device] = 1 - front[Device]
        /\ \A c \in Connector : c # Device => front'[c] = front[c]
       BY <1>1, <1>2, <1>5
  <2>2. Back(Device) = <<Device, front'[Device]>>
       BY <2>1, <1>5 DEF IInv, TypeOK, Back
  <2>3. Back(Device) \in Picture
       BY <1>1, <2>1, <2>2 DEF Picture, Buffer
  <2>4. /\ route' \in [Connector -> Crtc \cup {NoCrtc}]
        /\ scan' \in [Crtc -> Picture]
        /\ scan'[crtc[Device]] = Back(Device)
        /\ \A k \in Crtc : k # crtc[Device] =>
              scan'[k] = scan[k] \/ scan'[k] = Off
       BY <1>1, <1>5, <2>3, SetCrtcEffect DEF IInv
  <2> QED
       BY <1>1, <1>3, <2>1, <2>2, <2>4, ModesetAssumption
       DEF Flip, EndOfDevice, rest, history
<1> QED
     BY <1>4, <1>5 DEF Flip

LEMMA CleanupEffect ==
    ASSUME IInv, Cleanup
    PROVE  /\ pc = "cleanup"
           /\ UNCHANGED <<dumb, fbs, mapped, nbufs, next, crtc, front, saved, iter,
                          round, oldScan>>
           /\ nbufs \in {1, 2}
           /\ route' \in [Connector -> Crtc \cup {NoCrtc}]
           /\ scan' \in [Crtc -> Picture]
           /\ \A k \in Crtc : scan'[k] = scan[k] \/ scan'[k] \notin Buffer
           /\ \A b \in dumb \cup fbs \cup mapped :
                 \E i \in DOMAIN list : b[1] = list[i]
           /\ \/ /\ list = <<>> /\ pc' = "close"
                 /\ UNCHANGED <<route, scan, restored, list, dev, buf, ret>>
              \/ /\ pc' \in {"killed", "munmap"}
                 /\ list' \in Seq(Connector)
                 /\ dev' \in Connector
                 /\ 1 \in DOMAIN list /\ dev' = list[1]
                 /\ \A i \in DOMAIN list' :
                       /\ i + 1 \in DOMAIN list /\ list'[i] = list[i + 1]
                       /\ list'[i] \in Connector
                       /\ i + 1 # 1 /\ i \in Nat
                       /\ crtc[list'[i]] # crtc[dev'] /\ list'[i] # dev'
                 /\ \A i \in DOMAIN list :
                       i = 1 \/ (i - 1 \in DOMAIN list' /\ list'[i - 1] = list[i])
                 /\ buf' = nbufs - 1 /\ ret' = "cleanup"
                 /\ restored' \subseteq restored \cup {dev'}
                 /\ crtc[dev'] \in Crtc
                 /\ dev' \in restored' =>
                       /\ saved[dev'] # Null
                       /\ route'[dev'] = crtc[dev']
                       /\ scan'[crtc[dev']] = saved[dev']
                 /\ \A d \in restored :
                       /\ route'[d] = crtc[d]
                       /\ scan'[crtc[d]] = saved[d]
<1>1. /\ list \in Seq(Connector) /\ restored \subseteq Connector
      /\ nbufs \in {1, 2}
      /\ route \in [Connector -> Crtc \cup {NoCrtc}]
      /\ scan \in [Crtc -> Picture]
     BY DEF IInv, TypeOK
<1>2. \A b \in dumb \cup fbs \cup mapped : \E i \in DOMAIN list : b[1] = list[i]
  <2>1. dev = Nobody
       BY DEF IInv, Prepare, Cleanup, DeviceLabels, SetupLabels, CreateLabels,
              DestroyLabels
  <2>2. \A b \in dumb \cup fbs \cup mapped : b[1] \in Connector
       BY Pairs DEF IInv, TypeOK
  <2> QED
       BY <2>1, <2>2, ModesetAssumption DEF IInv, Owned
<1>3. CASE list = <<>>
     BY <1>1, <1>2, <1>3 DEF Cleanup, fields
<1>4. CASE list # <<>>
  <2> DEFINE d == Head(list)
  <2>1. /\ d = list[1] /\ 1 \in DOMAIN list /\ d \in Connector
        /\ Tail(list) \in Seq(Connector)
        /\ \A i \in DOMAIN Tail(list) :
              i + 1 \in DOMAIN list /\ i + 1 # 1 /\ Tail(list)[i] = list[i + 1]
        /\ \A i \in DOMAIN list :
              i = 1 \/ (i - 1 \in DOMAIN Tail(list) /\ Tail(list)[i - 1] = list[i])
       BY <1>1, <1>4, Pop
  <2>2. /\ list' = Tail(list) /\ dev' = d /\ buf' = nbufs - 1 /\ ret' = "cleanup"
        /\ \/ pc' = "killed" /\ UNCHANGED <<route, scan, restored>>
           \/ pc' = "munmap" /\ saved[d] # Null /\ RestoreCrtc(d)
       BY <1>4 DEF Cleanup
  <2>3. crtc[d] \in Crtc /\ saved[d] \in {Old, Off, Null}
       BY <2>1 DEF IInv, Prepare, Pictures
  <2>4. \A i \in DOMAIN Tail(list) :
           /\ crtc[Tail(list)[i]] # crtc[d] /\ Tail(list)[i] # d
           /\ Tail(list)[i] \in Connector /\ i \in Nat
       BY <2>1 DEF IInv, DistinctCrtcs
  <2>5. \A e \in restored :
           /\ e \in Connector /\ crtc[e] \in Crtc /\ crtc[e] # crtc[d]
           /\ route[e] = crtc[e] /\ scan[crtc[e]] = saved[e] /\ saved[e] # Null
       BY <1>1, <2>1 DEF IInv, Restored
  <2>6. /\ route' \in [Connector -> Crtc \cup {NoCrtc}]
        /\ scan' \in [Crtc -> Picture]
        /\ \A k \in Crtc : scan'[k] = scan[k] \/ scan'[k] \notin Buffer
        /\ restored' \subseteq restored \cup {d}
        /\ d \in restored' => /\ saved[d] # Null
                              /\ route'[d] = crtc[d]
                              /\ scan'[crtc[d]] = saved[d]
        /\ \A e \in restored : route'[e] = crtc[e] /\ scan'[crtc[e]] = saved[e]
    <3>1. CASE UNCHANGED <<route, scan, restored>>
         BY <1>1, <2>5, <3>1
    <3>2. CASE /\ saved[d] # Null
               /\ SetCrtc(crtc[d], saved[d], d)
               /\ restored' = restored \cup {d}
      <4>1. saved[d] \in Picture /\ saved[d] \notin Buffer /\ Off \notin Buffer
           BY <2>3, <3>2, ModesetAssumption DEF Picture
      <4>2. /\ route' \in [Connector -> Crtc \cup {NoCrtc}]
            /\ scan' \in [Crtc -> Picture]
            /\ route'[d] = crtc[d]
            /\ scan'[crtc[d]] = saved[d]
            /\ \A e \in Connector \ {d} : route[e] # crtc[d] => route'[e] = route[e]
            /\ \A j \in Crtc \ {crtc[d]} : scan'[j] \in {scan[j], Off}
            /\ \A j \in Crtc \ {crtc[d]} :
                  (\E e \in Connector : route'[e] = j) => scan'[j] = scan[j]
           BY <2>1, <2>3, <3>2, <4>1, SetCrtcEffect DEF IInv
      <4>3. \A e \in restored : route'[e] = crtc[e] /\ scan'[crtc[e]] = saved[e]
           BY <2>5, <4>2
      <4> QED
           BY <3>2, <4>1, <4>2, <4>3
    <3> QED
         BY <2>2, <3>1, <3>2 DEF RestoreCrtc
  <2> QED
       BY <1>1, <1>2, <2>1, <2>2, <2>3, <2>4, <2>6 DEF Cleanup, fields
<1> QED
     BY <1>3, <1>4

LEMMA ExitEffect ==
    ASSUME IInv, Exit
    PROVE  /\ pc' \in {"done", "crashed"}
           /\ UNCHANGED <<ret, nbufs, next, buf, crtc, front, saved, iter, round,
                          oldScan, restored>>
           /\ dumb' = {} /\ fbs' = {} /\ mapped' = {}
           /\ list' = <<>> /\ dev' = Nobody
           /\ route' \in [Connector -> Crtc \cup {NoCrtc}]
           /\ scan' \in [Crtc -> Picture]
           /\ \A d \in restored : route'[d] = crtc[d] /\ scan'[crtc[d]] = saved[d]
<1>1. fbs \subseteq Buffer
     BY DEF IInv, TypeOK
<1>2. /\ route' \in [Connector -> Crtc \cup {NoCrtc}]
      /\ scan' \in [Crtc -> Picture]
      /\ fbs' = fbs \ fbs
      /\ \A j \in Crtc : scan[j] \notin fbs => scan'[j] = scan[j]
      /\ \A d \in Connector :
            (route[d] \in Crtc /\ scan[route[d]] \notin fbs) => route'[d] = route[d]
     BY <1>1, RemoveFbsEffect DEF IInv, Exit
<1>3. \A d \in restored : route'[d] = crtc[d] /\ scan'[crtc[d]] = saved[d]
  <2> SUFFICES ASSUME NEW d \in restored
               PROVE  route'[d] = crtc[d] /\ scan'[crtc[d]] = saved[d]
       OBVIOUS
  <2>1. /\ d \in Connector /\ crtc[d] \in Crtc /\ route[d] = crtc[d]
        /\ scan[crtc[d]] = saved[d] /\ saved[d] \in {Old, Off}
       BY DEF IInv, TypeOK, Restored, Pictures
  <2>2. saved[d] \notin fbs
       BY <1>1, <2>1, ModesetAssumption
  <2> QED
       BY <1>2, <2>1, <2>2
<1> QED
     BY <1>2, <1>3 DEF Exit, rest, fields, history

-----------------------------------------------------------------------------
(* The invariant holds initially and every step preserves it.              *)

LEMMA InitHolds == Init => IInv
  BY ModesetAssumption
  DEF Init, IInv, TypeOK, Loops, Prepare, Pieces, Pictures, Restored,
      DistinctCrtcs, Shown, Complete, Owned, Handled,
      Picture, Label, SetupLabels, CreateLabels, DestroyLabels,
      DeviceLabels, PrepareLabels, CleanupLabels, Buffer, Crtc, NoCrtc

\* From here on the groups of labels are read as the sets they stand for.
USE DEF SetupLabels, CreateLabels, DestroyLabels, DeviceLabels, PrepareLabels,
        CleanupLabels

LEMMA StartStep ==
    ASSUME IInv, Start
    PROVE  IInv'
<1>1. TypeOK'
     BY ModesetAssumption
     DEF IInv, TypeOK, Loops, Prepare, Label, Picture, Buffer, Start, kernel,
         rest, fields, history
<1>2. Loops'
     BY DEF IInv, TypeOK, Loops, Start, kernel, rest, fields, history
<1>3. Prepare'
     BY ModesetAssumption
     DEF IInv, TypeOK, Prepare, Handled, Start, kernel, rest, fields, history
<1>4. Pieces'
     BY DEF IInv, TypeOK, Prepare, Pieces, Owned, Buffer, Start, kernel, rest,
            fields, history
<1>5. Pictures'
     BY DEF IInv, TypeOK, Loops, Prepare, Pictures, Start, kernel, rest,
            fields, history
<1>6. Restored'
     BY DEF IInv, TypeOK, Prepare, Restored, Start, kernel, rest, fields,
            history
<1>7. DistinctCrtcs'
     BY DEF IInv, TypeOK, Prepare, DistinctCrtcs, Start, kernel, rest, fields,
            history
<1>8. Shown'
     BY DEF IInv, TypeOK, Prepare, Shown, Start, kernel, rest, fields, history
<1>9. Complete'
     BY DEF IInv, TypeOK, Prepare, Complete, Start, kernel, rest, fields,
            history
<1>10. Owned'
     BY DEF IInv, TypeOK, Prepare, Pieces, Owned, Buffer, Start, kernel, rest,
            fields, history
<1> QED
     BY <1>1, <1>2, <1>3, <1>4, <1>5, <1>6, <1>7, <1>8, <1>9, <1>10
     DEF IInv

LEMMA GetConnectorStep ==
    ASSUME IInv, GetConnector
    PROVE  IInv'
<1>1. TypeOK'
     BY GetConnectorEffect DEF IInv, TypeOK, Label
<1>2. Loops'
     BY GetConnectorEffect
     DEF IInv, TypeOK, Loops
<1>3. Prepare'
     BY GetConnectorEffect
     DEF IInv, Prepare
<1>4. Pieces'
     BY GetConnectorEffect
     DEF IInv, TypeOK, Prepare, Pieces, Owned, Buffer
<1>5. Pictures'
     BY GetConnectorEffect
     DEF IInv, TypeOK, Loops, Prepare, Pictures
<1>6. Restored'
     BY GetConnectorEffect
     DEF IInv, TypeOK, Prepare, Restored
<1>7. DistinctCrtcs'
     BY GetConnectorEffect DEF IInv, DistinctCrtcs
<1>8. Shown'
     BY GetConnectorEffect DEF IInv, Shown
<1>9. Complete'
     BY GetConnectorEffect DEF IInv, Complete
<1>10. Owned'
     BY GetConnectorEffect DEF IInv, Owned
<1> QED
     BY <1>1, <1>2, <1>3, <1>4, <1>5, <1>6, <1>7, <1>8, <1>9, <1>10
     DEF IInv

LEMMA PreparedStep ==
    ASSUME IInv, Prepared
    PROVE  IInv'
<1>1. TypeOK'
     BY ModesetAssumption
     DEF IInv, TypeOK, Loops, Prepare, Label, Picture, Buffer, Prepared,
         kernel, rest, fields, history
<1>2. Loops'
     BY DEF IInv, TypeOK, Loops, Prepared, kernel, rest, fields, history
<1>3. Prepare'
     BY ModesetAssumption
     DEF IInv, TypeOK, Prepare, Handled, Prepared, kernel, rest, fields,
         history
<1>4. Pieces'
     BY DEF IInv, TypeOK, Prepare, Pieces, Owned, Buffer, Prepared, kernel,
            rest, fields, history
<1>5. Pictures'
     BY DEF IInv, TypeOK, Loops, Prepare, Pictures, Prepared, kernel, rest,
            fields, history
<1>6. Restored'
     BY DEF IInv, TypeOK, Prepare, Restored, Prepared, kernel, rest, fields,
            history
<1>7. DistinctCrtcs'
     BY DEF IInv, TypeOK, Prepare, DistinctCrtcs, Prepared, kernel, rest,
            fields, history
<1>8. Shown'
     BY DEF IInv, TypeOK, Prepare, Shown, Prepared, kernel, rest, fields,
            history
<1>9. Complete'
     BY DEF IInv, TypeOK, Prepare, Complete, Prepared, kernel, rest, fields,
            history
<1>10. Owned'
     BY DEF IInv, TypeOK, Prepare, Pieces, Owned, Buffer, Prepared, kernel,
            rest, fields, history
<1> QED
     BY <1>1, <1>2, <1>3, <1>4, <1>5, <1>6, <1>7, <1>8, <1>9, <1>10
     DEF IInv

LEMMA SetupCrtcStep ==
    ASSUME IInv, SetupCrtc
    PROVE  IInv'
<1>1. TypeOK'
     BY SetupCrtcEffect DEF IInv, TypeOK, Label
<1>2. Loops'
     BY SetupCrtcEffect
     DEF IInv, TypeOK, Loops
<1>3. Prepare'
     BY SetupCrtcEffect
     DEF IInv, Prepare, Handled
<1>4. Pieces'
     BY SetupCrtcEffect
     DEF IInv, TypeOK, Prepare, Pieces, Owned, Buffer
<1>5. Pictures'
     BY SetupCrtcEffect
     DEF IInv, TypeOK, Loops, Prepare, Pictures
<1>6. Restored'
     BY SetupCrtcEffect
     DEF IInv, TypeOK, Prepare, Restored
<1>7. DistinctCrtcs'
     BY SetupCrtcEffect DEF IInv, DistinctCrtcs
<1>8. Shown'
     BY SetupCrtcEffect DEF IInv, Shown
<1>9. Complete'
     BY SetupCrtcEffect DEF IInv, Complete
<1>10. Owned'
     BY SetupCrtcEffect DEF IInv, Owned, Pieces
<1> QED
     BY <1>1, <1>2, <1>3, <1>4, <1>5, <1>6, <1>7, <1>8, <1>9, <1>10
     DEF IInv

LEMMA CreateDumbStep ==
    ASSUME IInv, CreateDumb
    PROVE  IInv'
<1>1. TypeOK'
     BY ModesetAssumption
     DEF IInv, TypeOK, Loops, Prepare, Label, Picture, Buffer, CreateDumb,
         SetupFailed, Drop, This, rest, fields, history
<1>2. Loops'
     BY DEF IInv, TypeOK, Loops, CreateDumb, SetupFailed, Drop, This, rest,
            fields, history
<1>3. Prepare'
     BY ModesetAssumption
     DEF IInv, TypeOK, Prepare, Handled, CreateDumb, SetupFailed, Drop, This,
         rest, fields, history
<1>4. Pieces'
     BY DEF IInv, TypeOK, Prepare, Pieces, Owned, Buffer, CreateDumb,
            SetupFailed, Drop, This, rest, fields, history
<1>5. Pictures'
     BY DEF IInv, TypeOK, Loops, Prepare, Pictures, CreateDumb, SetupFailed,
            Drop, This, rest, fields, history
<1>6. Restored'
     BY DEF IInv, TypeOK, Prepare, Restored, CreateDumb, SetupFailed, Drop,
            This, rest, fields, history
<1>7. DistinctCrtcs'
     BY DEF IInv, TypeOK, Prepare, DistinctCrtcs, CreateDumb, SetupFailed,
            Drop, This, rest, fields, history
<1>8. Shown'
     BY DEF IInv, TypeOK, Prepare, Shown, CreateDumb, SetupFailed, Drop, This,
            rest, fields, history
<1>9. Complete'
  <2>1. dumb \subseteq dumb' /\ UNCHANGED <<fbs, mapped, list, nbufs>>
       BY DEF CreateDumb, rest
  <2> QED
       BY <2>1 DEF IInv, Complete
<1>10. Owned'
     BY DEF IInv, TypeOK, Prepare, Pieces, Owned, Buffer, CreateDumb,
            SetupFailed, Drop, This, rest, fields, history
<1> QED
     BY <1>1, <1>2, <1>3, <1>4, <1>5, <1>6, <1>7, <1>8, <1>9, <1>10
     DEF IInv

LEMMA AddFBStep ==
    ASSUME IInv, AddFB
    PROVE  IInv'
<1>1. TypeOK'
     BY ModesetAssumption
     DEF IInv, TypeOK, Loops, Prepare, Label, Picture, Buffer, AddFB, This,
         rest, fields, history
<1>2. Loops'
     BY DEF IInv, TypeOK, Loops, AddFB, This, rest, fields, history
<1>3. Prepare'
     BY ModesetAssumption
     DEF IInv, TypeOK, Prepare, Handled, AddFB, This, rest, fields, history
<1>4. Pieces'
     BY DEF IInv, TypeOK, Prepare, Pieces, Owned, Buffer, AddFB, This, rest,
            fields, history
<1>5. Pictures'
     BY DEF IInv, TypeOK, Loops, Prepare, Pictures, AddFB, This, rest, fields,
            history
<1>6. Restored'
     BY DEF IInv, TypeOK, Prepare, Restored, AddFB, This, rest, fields,
            history
<1>7. DistinctCrtcs'
     BY DEF IInv, TypeOK, Prepare, DistinctCrtcs, AddFB, This, rest, fields,
            history
<1>8. Shown'
     BY DEF IInv, TypeOK, Prepare, Shown, AddFB, This, rest, fields, history
<1>9. Complete'
  <2>1. fbs \subseteq fbs' /\ UNCHANGED <<dumb, mapped, list, nbufs>>
       BY DEF AddFB, rest
  <2> QED
       BY <2>1 DEF IInv, Complete
<1>10. Owned'
     BY DEF IInv, TypeOK, Prepare, Pieces, Owned, Buffer, AddFB, This, rest,
            fields, history
<1> QED
     BY <1>1, <1>2, <1>3, <1>4, <1>5, <1>6, <1>7, <1>8, <1>9, <1>10
     DEF IInv

LEMMA MapDumbStep ==
    ASSUME IInv, MapDumb
    PROVE  IInv'
<1>1. TypeOK'
     BY ModesetAssumption
     DEF IInv, TypeOK, Loops, Prepare, Label, Picture, Buffer, MapDumb,
         kernel, rest, fields, history
<1>2. Loops'
     BY DEF IInv, TypeOK, Loops, MapDumb, kernel, rest, fields, history
<1>3. Prepare'
     BY ModesetAssumption
     DEF IInv, TypeOK, Prepare, Handled, MapDumb, kernel, rest, fields,
         history
<1>4. Pieces'
     BY DEF IInv, TypeOK, Prepare, Pieces, Owned, Buffer, MapDumb, kernel,
            rest, fields, history
<1>5. Pictures'
     BY DEF IInv, TypeOK, Loops, Prepare, Pictures, MapDumb, kernel, rest,
            fields, history
<1>6. Restored'
     BY DEF IInv, TypeOK, Prepare, Restored, MapDumb, kernel, rest, fields,
            history
<1>7. DistinctCrtcs'
     BY DEF IInv, TypeOK, Prepare, DistinctCrtcs, MapDumb, kernel, rest,
            fields, history
<1>8. Shown'
     BY DEF IInv, TypeOK, Prepare, Shown, MapDumb, kernel, rest, fields,
            history
<1>9. Complete'
     BY DEF IInv, TypeOK, Prepare, Complete, MapDumb, kernel, rest, fields,
            history
<1>10. Owned'
     BY DEF IInv, TypeOK, Prepare, Pieces, Owned, Buffer, MapDumb, kernel,
            rest, fields, history
<1> QED
     BY <1>1, <1>2, <1>3, <1>4, <1>5, <1>6, <1>7, <1>8, <1>9, <1>10
     DEF IInv

LEMMA MmapStep ==
    ASSUME IInv, Mmap
    PROVE  IInv'
<1>1. TypeOK'
  <2>1. /\ pc' \in Label /\ buf' \in {0, 1} /\ dev' \in Connector \cup {Nobody}
        /\ mapped' \subseteq Buffer
       BY MmapEffect DEF IInv, TypeOK, Label
  <2>2. list' \in Seq(Connector)
       BY MmapEffect DEF IInv, TypeOK
  <2>3. UNCHANGED <<route, scan, dumb, fbs, ret, nbufs, next, crtc, front, saved,
                    iter, round, oldScan, restored>>
       BY MmapEffect
  <2> QED
       BY <2>1, <2>2, <2>3 DEF IInv, TypeOK
<1>2. Loops'
     BY MmapEffect
     DEF IInv, TypeOK, Loops
<1>3. Prepare'
  <2>1. UNCHANGED <<scan, ret, next, crtc>> /\ Handled' = Handled
       BY MmapEffect DEF Handled
  <2>2. /\ pc = "mmap" /\ ret = "connector" /\ dev \in Handled
        /\ \A k \in Crtc : scan[k] \notin Buffer
        /\ \A i \in DOMAIN list : list[i] \in Handled /\ crtc[list[i]] \in Crtc
       BY MmapEffect DEF IInv, Prepare
  <2>3. CASE pc' \in {"err_fb", "create"}
       BY <2>1, <2>2, <2>3, MmapEffect DEF IInv, Prepare
  <2>4. CASE pc' = "connector"
    <3>1. dev' = Nobody
         BY <2>4, MmapEffect
    <3>2. \A i \in DOMAIN list' : list'[i] \in Handled /\ crtc[list'[i]] \in Crtc
         BY <2>2, <2>4, MmapEffect
    <3> QED
         BY <2>1, <2>2, <2>4, <3>1, <3>2 DEF Prepare
  <2> QED
       BY <2>3, <2>4, MmapEffect
<1>4. Pieces'
  <2>1. CASE pc' = "err_fb"
       BY <2>1, MmapEffect DEF IInv, Pieces
  <2>2. CASE pc' = "create"
       BY <2>2, MmapEffect DEF IInv, Pieces
  <2>3. CASE pc' = "connector"
       BY <2>3, MmapEffect DEF IInv, Pieces
  <2> QED
       BY <2>1, <2>2, <2>3, MmapEffect
<1>5. Pictures'
     BY MmapEffect
     DEF IInv, TypeOK, Loops, Prepare, Pictures
<1>6. Restored'
     BY MmapEffect
     DEF IInv, TypeOK, Prepare, Restored
<1>7. DistinctCrtcs'
  <2>1. CASE pc' = "err_fb"
       BY <2>1, MmapEffect DEF IInv, DistinctCrtcs
  <2>2. CASE pc' = "create"
       BY <2>2, MmapEffect DEF IInv, DistinctCrtcs
  <2>3. CASE pc' = "connector"
    <3>1. SUFFICES ASSUME NEW i \in DOMAIN list', NEW j \in DOMAIN list', i # j
                   PROVE  crtc[list'[i]] # crtc[list'[j]]
         BY MmapEffect DEF DistinctCrtcs
    <3>2. i \in Nat /\ j \in Nat
         BY <2>3, MmapEffect
    <3>3. CASE i = 1
         BY <2>3, <3>1, <3>3, MmapEffect
    <3>4. CASE j = 1
         BY <2>3, <3>1, <3>4, MmapEffect
    <3>5. CASE i # 1 /\ j # 1
      <4>1. /\ i - 1 \in DOMAIN list /\ list'[i] = list[i - 1]
            /\ j - 1 \in DOMAIN list /\ list'[j] = list[j - 1]
           BY <2>3, <3>5, MmapEffect
      <4>2. i - 1 # j - 1
           BY <3>1, <3>2
      <4> QED
           BY <4>1, <4>2 DEF IInv, DistinctCrtcs
    <3> QED
         BY <3>3, <3>4, <3>5
  <2> QED
       BY <2>1, <2>2, <2>3, MmapEffect
<1>8. Shown'
  <2>1. CASE pc' = "err_fb"
       BY <2>1, MmapEffect DEF IInv, Shown
  <2>2. CASE pc' = "create"
       BY <2>2, MmapEffect DEF IInv, Shown
  <2>3. CASE pc' = "connector"
    <3>1. \A i \in DOMAIN list', n \in {0, 1} : <<list'[i], n>> \in Buffer
         BY <2>3, MmapEffect DEF Buffer
    <3>2. \A k \in Crtc : scan'[k] \notin Buffer
         BY MmapEffect
    <3> QED
         BY <3>1, <3>2 DEF Shown
  <2> QED
       BY <2>1, <2>2, <2>3, MmapEffect
<1>9. Complete'
  <2>1. CASE pc' = "err_fb"
       BY <2>1, MmapEffect DEF IInv, Complete
  <2>2. CASE pc' = "create"
       BY <2>2, MmapEffect DEF IInv, Complete
  <2>3. CASE pc' = "connector"
    <3>1. SUFFICES ASSUME NEW i \in DOMAIN list', NEW n \in {0, 1}, n < nbufs'
                   PROVE  <<list'[i], n>> \in dumb' \cap fbs' \cap mapped'
         BY DEF Complete
    <3>2. CASE i = 1
         BY <2>3, <3>1, <3>2, MmapEffect
    <3>3. CASE i - 1 \in DOMAIN list /\ list'[i] = list[i - 1]
         BY <2>3, <3>1, <3>3, MmapEffect DEF IInv, Complete
    <3> QED
         BY <2>3, <3>2, <3>3, MmapEffect
  <2> QED
       BY <2>1, <2>2, <2>3, MmapEffect
<1>10. Owned'
  <2>1. CASE pc' = "err_fb"
       BY <2>1, MmapEffect DEF IInv, Owned
  <2>2. CASE pc' = "create"
       BY <2>2, MmapEffect DEF IInv, Owned
  <2>3. CASE pc' = "connector"
    <3>1. SUFFICES ASSUME NEW b \in dumb' \cup fbs' \cup mapped'
                   PROVE  \E i \in DOMAIN list' : b[1] = list'[i]
         BY DEF Owned
    <3>2. b \in dumb \cup fbs \cup mapped \/ b = <<dev, buf>>
         BY <2>3, MmapEffect
    <3>3. CASE b[1] = dev
         BY <2>3, <3>3, MmapEffect
    <3>4. CASE b[1] # dev
      <4>1. PICK i \in DOMAIN list : b[1] = list[i]
           BY <3>2, <3>4 DEF IInv, Owned
      <4>2. i + 1 \in DOMAIN list' /\ list'[i + 1] = list[i]
           BY <2>3, MmapEffect
      <4> QED
           BY <4>1, <4>2
    <3> QED
         BY <3>3, <3>4
  <2> QED
       BY <2>1, <2>2, <2>3, MmapEffect
<1> QED
     BY <1>1, <1>2, <1>3, <1>4, <1>5, <1>6, <1>7, <1>8, <1>9, <1>10
     DEF IInv

LEMMA ErrDestroyStep ==
    ASSUME IInv, ErrDestroy
    PROVE  IInv'
<1>1. TypeOK'
     BY ErrDestroyEffect DEF IInv, TypeOK, Label
<1>2. Loops'
     BY ErrDestroyEffect
     DEF IInv, TypeOK, Loops
<1>3. Prepare'
     BY ModesetAssumption, ErrDestroyEffect
     DEF IInv, TypeOK, Prepare, Handled
<1>4. Pieces'
     BY ErrDestroyEffect
     DEF IInv, Pieces
<1>5. Pictures'
     BY ErrDestroyEffect
     DEF IInv, TypeOK, Loops, Prepare, Pictures
<1>6. Restored'
     BY ErrDestroyEffect
     DEF IInv, TypeOK, Prepare, Restored
<1>7. DistinctCrtcs'
     BY ErrDestroyEffect DEF IInv, DistinctCrtcs
<1>8. Shown'
     BY ErrDestroyEffect DEF IInv, Shown
<1>9. Complete'
     BY ErrDestroyEffect DEF IInv, Complete
<1>10. Owned'
     BY ErrDestroyEffect DEF IInv, Owned
<1> QED
     BY <1>1, <1>2, <1>3, <1>4, <1>5, <1>6, <1>7, <1>8, <1>9, <1>10
     DEF IInv

LEMMA MunmapStep ==
    ASSUME IInv, Munmap
    PROVE  IInv'
<1>1. TypeOK'
     BY ModesetAssumption
     DEF IInv, TypeOK, Loops, Prepare, Label, Picture, Buffer, Munmap, This,
         rest, fields, history
<1>2. Loops'
     BY DEF IInv, TypeOK, Loops, Munmap, This, rest, fields, history
<1>3. Prepare'
     BY ModesetAssumption
     DEF IInv, TypeOK, Prepare, Handled, Munmap, This, rest, fields, history
<1>4. Pieces'
     BY DEF IInv, TypeOK, Prepare, Pieces, Owned, Buffer, Munmap, This, rest,
            fields, history
<1>5. Pictures'
     BY DEF IInv, TypeOK, Loops, Prepare, Pictures, Munmap, This, rest,
            fields, history
<1>6. Restored'
     BY DEF IInv, TypeOK, Prepare, Restored, Munmap, This, rest, fields,
            history
<1>7. DistinctCrtcs'
     BY DEF IInv, TypeOK, Prepare, DistinctCrtcs, Munmap, This, rest, fields,
            history
<1>8. Shown'
     BY DEF IInv, TypeOK, Prepare, Shown, Munmap, This, rest, fields, history
<1>9. Complete'
  <2>1. SUFFICES ASSUME NEW i \in DOMAIN list, NEW n \in {0, 1}, n < nbufs
               PROVE  <<list[i], n>> \in dumb' \cap fbs' \cap mapped'
       BY DEF Complete, Munmap, rest
  <2>2. list[i] # dev
       BY DEF IInv, Prepare, Munmap
  <2>3. <<list[i], n>> \in dumb \cap fbs \cap mapped
       BY <2>1 DEF IInv, Complete
  <2> QED
       BY <2>2, <2>3 DEF Munmap, This
<1>10. Owned'
     BY DEF IInv, TypeOK, Prepare, Pieces, Owned, Buffer, Munmap, This, rest,
            fields, history
<1> QED
     BY <1>1, <1>2, <1>3, <1>4, <1>5, <1>6, <1>7, <1>8, <1>9, <1>10
     DEF IInv

LEMMA DestroyDumbStep ==
    ASSUME IInv, DestroyDumb
    PROVE  IInv'
<1>1. TypeOK'
     BY DestroyDumbEffect DEF IInv, TypeOK, Label
<1>2. Loops'
     BY DestroyDumbEffect
     DEF IInv, TypeOK, Loops
<1>3. Prepare'
     BY ModesetAssumption, DestroyDumbEffect
     DEF IInv, TypeOK, Prepare, Handled
<1>4. Pieces'
     BY DestroyDumbEffect
     DEF IInv, Pieces
<1>5. Pictures'
     BY DestroyDumbEffect
     DEF IInv, TypeOK, Loops, Prepare, Pictures
<1>6. Restored'
     BY DestroyDumbEffect
     DEF IInv, TypeOK, Prepare, Restored
<1>7. DistinctCrtcs'
     BY DestroyDumbEffect DEF IInv, DistinctCrtcs
<1>8. Shown'
     BY DestroyDumbEffect DEF IInv, Shown
<1>9. Complete'
     BY DestroyDumbEffect DEF IInv, Complete
<1>10. Owned'
     BY DestroyDumbEffect DEF IInv, Owned
<1> QED
     BY <1>1, <1>2, <1>3, <1>4, <1>5, <1>6, <1>7, <1>8, <1>9, <1>10
     DEF IInv

LEMMA SaveStep ==
    ASSUME IInv, Save
    PROVE  IInv'
<1>1. TypeOK'
     BY SaveEffect DEF IInv, TypeOK, Label
<1>2. Loops'
     BY SaveEffect
     DEF IInv, TypeOK, Loops
<1>3. Prepare'
     BY ModesetAssumption, SaveEffect
     DEF IInv, TypeOK, Prepare, Handled
<1>4. Pieces'
     BY SaveEffect
     DEF IInv, TypeOK, Prepare, Pieces, Owned, Buffer
<1>5. Pictures'
     BY SaveEffect
     DEF IInv, TypeOK, Loops, Prepare, Pictures
<1>6. Restored'
     BY SaveEffect
     DEF IInv, TypeOK, Prepare, Restored
<1>7. DistinctCrtcs'
     BY SaveEffect DEF IInv, DistinctCrtcs
<1>8. Shown'
     BY SaveEffect DEF IInv, Shown
<1>9. Complete'
     BY SaveEffect DEF IInv, Complete
<1>10. Owned'
     BY SaveEffect DEF IInv, Owned
<1> QED
     BY <1>1, <1>2, <1>3, <1>4, <1>5, <1>6, <1>7, <1>8, <1>9, <1>10
     DEF IInv

LEMMA DrawStep ==
    ASSUME IInv, Draw
    PROVE  IInv'
<1>1. TypeOK'
     BY ModesetAssumption
     DEF IInv, TypeOK, Loops, Prepare, Label, Picture, Buffer, Draw, kernel,
         rest, fields, history
<1>2. Loops'
     BY ModesetAssumption
     DEF IInv, TypeOK, Loops, Draw, kernel, rest, fields, history
<1>3. Prepare'
     BY ModesetAssumption
     DEF IInv, TypeOK, Prepare, Handled, Draw, kernel, rest, fields, history
<1>4. Pieces'
     BY DEF IInv, TypeOK, Prepare, Pieces, Owned, Buffer, Draw, kernel, rest,
            fields, history
<1>5. Pictures'
     BY DEF IInv, TypeOK, Loops, Prepare, Pictures, Draw, kernel, rest,
            fields, history
<1>6. Restored'
     BY DEF IInv, TypeOK, Prepare, Restored, Draw, kernel, rest, fields,
            history
<1>7. DistinctCrtcs'
     BY DEF IInv, TypeOK, Prepare, DistinctCrtcs, Draw, kernel, rest, fields,
            history
<1>8. Shown'
     BY DEF IInv, TypeOK, Prepare, Shown, Draw, kernel, rest, fields, history
<1>9. Complete'
     BY DEF IInv, TypeOK, Prepare, Complete, Draw, kernel, rest, fields,
            history
<1>10. Owned'
     BY DEF IInv, TypeOK, Prepare, Pieces, Owned, Buffer, Draw, kernel, rest,
            fields, history
<1> QED
     BY <1>1, <1>2, <1>3, <1>4, <1>5, <1>6, <1>7, <1>8, <1>9, <1>10
     DEF IInv

LEMMA ErrFbStep ==
    ASSUME IInv, ErrFb
    PROVE  IInv'
<1>1. TypeOK'
     BY ErrFbEffect
     DEF IInv, TypeOK, Label
<1>2. Loops'
     BY ErrFbEffect
     DEF IInv, Loops
<1>3. Prepare'
  <2>1. \A k \in Crtc : scan'[k] \in Buffer => scan[k] \in Buffer
       BY ErrFbEffect
  <2>2. /\ pc = "err_fb" /\ pc' = "err_destroy"
        /\ UNCHANGED <<nbufs, ret, next, list, dev, crtc>>
       BY ErrFbEffect
  <2> QED
       BY <2>1, <2>2 DEF IInv, Prepare, Handled
<1>4. Pieces'
     BY ErrFbEffect
     DEF IInv, Pieces
<1>5. Pictures'
     BY ErrFbEffect
     DEF IInv, Pictures
<1>6. Restored'
     BY ErrFbEffect
     DEF IInv, TypeOK, Restored
<1>7. DistinctCrtcs'
     BY ErrFbEffect
     DEF IInv, DistinctCrtcs
<1>8. Shown'
     BY ErrFbEffect
     DEF IInv, TypeOK, Shown, Buffer
<1>9. Complete'
  <2>1. SUFFICES ASSUME NEW i \in DOMAIN list, NEW n \in {0, 1}, n < nbufs
               PROVE  <<list[i], n>> \in dumb' \cap fbs' \cap mapped'
       BY ErrFbEffect DEF Complete
  <2>2. list[i] # dev
       BY ErrFbEffect
  <2>3. <<list[i], n>> \in dumb \cap fbs \cap mapped
       BY <2>1 DEF IInv, Complete
  <2> QED
       BY <2>2, <2>3, ErrFbEffect
<1>10. Owned'
     BY ErrFbEffect
     DEF IInv, Owned
<1> QED
     BY <1>1, <1>2, <1>3, <1>4, <1>5, <1>6, <1>7, <1>8, <1>9, <1>10
     DEF IInv

LEMMA RmFBStep ==
    ASSUME IInv, RmFB
    PROVE  IInv'
<1>1. TypeOK'
     BY RmFBEffect
     DEF IInv, TypeOK, Label
<1>2. Loops'
     BY RmFBEffect
     DEF IInv, Loops
<1>3. Prepare'
  <2>1. \A k \in Crtc : scan'[k] \in Buffer => scan[k] \in Buffer
       BY RmFBEffect
  <2>2. /\ pc = "rm_fb" /\ pc' = "destroy"
        /\ UNCHANGED <<nbufs, ret, next, list, dev, crtc>>
       BY RmFBEffect
  <2> QED
       BY <2>1, <2>2 DEF IInv, Prepare, Handled
<1>4. Pieces'
     BY RmFBEffect
     DEF IInv, Pieces
<1>5. Pictures'
     BY RmFBEffect
     DEF IInv, Pictures
<1>6. Restored'
     BY RmFBEffect
     DEF IInv, TypeOK, Restored
<1>7. DistinctCrtcs'
     BY RmFBEffect
     DEF IInv, DistinctCrtcs
<1>8. Shown'
     BY RmFBEffect
     DEF IInv, TypeOK, Shown, Buffer
<1>9. Complete'
  <2>1. SUFFICES ASSUME NEW i \in DOMAIN list, NEW n \in {0, 1}, n < nbufs
               PROVE  <<list[i], n>> \in dumb' \cap fbs' \cap mapped'
       BY RmFBEffect DEF Complete
  <2>2. list[i] # dev
       BY RmFBEffect
  <2>3. <<list[i], n>> \in dumb \cap fbs \cap mapped
       BY <2>1 DEF IInv, Complete
  <2> QED
       BY <2>2, <2>3, RmFBEffect
<1>10. Owned'
     BY RmFBEffect
     DEF IInv, Owned
<1> QED
     BY <1>1, <1>2, <1>3, <1>4, <1>5, <1>6, <1>7, <1>8, <1>9, <1>10
     DEF IInv

LEMMA ShowStep ==
    ASSUME IInv, Show
    PROVE  IInv'
<1>1. TypeOK'
     BY ShowEffect
     DEF IInv, TypeOK, Label
<1>2. Loops'
     BY ShowEffect
     DEF IInv, Loops
<1>3. Prepare'
     BY ShowEffect
     DEF IInv, TypeOK, Prepare, Handled
<1>4. Pieces'
     BY ShowEffect
     DEF IInv, Pieces
<1>5. Pictures'
  <2>1. SUFFICES ASSUME pc' = "save", NEW j \in iter'..Len(list)
               PROVE  scan'[crtc[list[j]]] \notin Buffer
       BY ShowEffect DEF IInv, Pictures
  <2>2. iter' = iter + 1 /\ j \in iter..Len(list) /\ j \in DOMAIN list
       BY <2>1, ShowEffect
  <2>3. crtc[list[j]] \in Crtc /\ crtc[list[j]] # crtc[list[iter]]
       BY <2>1, <2>2, ShowEffect DEF IInv, Prepare
  <2>4. scan[crtc[list[j]]] \notin Buffer
       BY <2>2, ShowEffect DEF IInv, Pictures
  <2> QED
       BY <2>3, <2>4, ShowEffect
<1>6. Restored'
     BY ShowEffect
     DEF IInv, TypeOK, Restored
<1>7. DistinctCrtcs'
     BY ShowEffect
     DEF IInv, DistinctCrtcs
<1>8. Shown'
  <2>1. SUFFICES ASSUME NEW i \in DOMAIN list', NEW k \in Crtc, NEW n \in {0, 1},
                      scan'[k] = <<list'[i], n>>
               PROVE  k = crtc[list'[i]] /\ n = front'[list'[i]]
       BY ShowEffect DEF Shown
  <2>2. list[i] \in Connector /\ list' = list
       BY <2>1, ShowEffect
  <2>3. CASE scan'[k] = scan[k]
       BY <2>1, <2>2, <2>3, ShowEffect DEF IInv, Shown
  <2>4. scan'[k] # Off
    <3>1. <<list[i], n>> \in Buffer
         BY <2>1, <2>2 DEF Buffer
    <3>2. scan'[k] = <<list[i], n>>
         BY <2>1, <2>2
    <3>3. Off \notin Buffer
         BY ShowEffect
    <3> QED
         BY <3>1, <3>2, <3>3
  <2>5. CASE /\ k = crtc[list[iter]]
             /\ scan'[k] = <<list[iter], front[list[iter]]>>
       BY <2>1, <2>2, <2>5, ShowEffect
  <2> QED
       BY <2>3, <2>4, <2>5, ShowEffect
<1>9. Complete'
     BY ShowEffect
     DEF IInv, Complete
<1>10. Owned'
     BY ShowEffect
     DEF IInv, Owned
<1> QED
     BY <1>1, <1>2, <1>3, <1>4, <1>5, <1>6, <1>7, <1>8, <1>9, <1>10
     DEF IInv

LEMMA FlipStep ==
    ASSUME IInv, Flip
    PROVE  IInv'
<1>1. TypeOK'
     BY FlipEffect
     DEF IInv, TypeOK, Label
<1>2. Loops'
     BY FlipEffect
     DEF IInv, Loops
<1>3. Prepare'
     BY FlipEffect
     DEF IInv, TypeOK, Prepare, Handled
<1>4. Pieces'
     BY FlipEffect
     DEF IInv, Pieces
<1>5. Pictures'
     BY FlipEffect
     DEF IInv, Pictures
<1>6. Restored'
     BY FlipEffect
     DEF IInv, TypeOK, Restored
<1>7. DistinctCrtcs'
     BY FlipEffect
     DEF IInv, DistinctCrtcs
<1>8. Shown'
  <2>1. SUFFICES ASSUME NEW i \in DOMAIN list', NEW k \in Crtc, NEW n \in {0, 1},
                      scan'[k] = <<list'[i], n>>
               PROVE  k = crtc[list'[i]] /\ n = front'[list'[i]]
       BY FlipEffect DEF Shown
  <2>2. list[i] \in Connector /\ list' = list /\ crtc' = crtc
       BY <2>1, FlipEffect DEF IInv, TypeOK
  <2>3. CASE UNCHANGED <<scan, front>>
       BY <2>1, <2>2, <2>3 DEF IInv, Shown
  <2>4. ASSUME NEW d \in Connector,
               scan'[crtc[d]] = <<d, front'[d]>>,
               \A c \in Connector : c # d => front'[c] = front[c],
               \A j \in Crtc : j # crtc[d] => scan'[j] = scan[j] \/ scan'[j] = Off
        PROVE  k = crtc[list[i]] /\ n = front'[list[i]]
    <3>1. CASE k = crtc[d]
         BY <2>1, <2>2, <2>4, <3>1
    <3>2. CASE k # crtc[d]
      <4>1. scan'[k] # Off
           BY <2>1, <2>2, FlipEffect DEF Buffer
      <4>2. scan[k] = <<list[i], n>>
           BY <2>1, <2>2, <2>4, <3>2, <4>1
      <4>3. k = crtc[list[i]] /\ n = front[list[i]]
           BY <2>1, <2>2, <4>2 DEF IInv, Shown
      <4> QED
           BY <2>2, <2>4, <3>2, <4>3
    <3> QED
         BY <3>1, <3>2
  <2> QED
       BY <2>2, <2>3, <2>4, FlipEffect
<1>9. Complete'
     BY FlipEffect
     DEF IInv, Complete
<1>10. Owned'
     BY FlipEffect
     DEF IInv, Owned
<1> QED
     BY <1>1, <1>2, <1>3, <1>4, <1>5, <1>6, <1>7, <1>8, <1>9, <1>10
     DEF IInv

LEMMA CleanupStep ==
    ASSUME IInv, Cleanup
    PROVE  IInv'
<1>1. TypeOK'
     BY CleanupEffect
     DEF IInv, TypeOK, Label
<1>2. Loops'
     BY CleanupEffect
     DEF IInv, Loops
<1>3. Prepare'
     BY CleanupEffect
     DEF IInv, TypeOK, Prepare, Handled
<1>4. Pieces'
     BY CleanupEffect
     DEF IInv, Pieces
<1>5. Pictures'
     BY CleanupEffect
     DEF IInv, Pictures
<1>6. Restored'
     BY CleanupEffect
     DEF IInv, TypeOK, Restored
<1>7. DistinctCrtcs'
     BY CleanupEffect
     DEF IInv, DistinctCrtcs
<1>8. Shown'
  <2>1. SUFFICES ASSUME NEW i \in DOMAIN list', NEW k \in Crtc, NEW n \in {0, 1},
                      scan'[k] = <<list'[i], n>>
               PROVE  k = crtc[list'[i]] /\ n = front'[list'[i]]
       BY CleanupEffect DEF Shown
  <2>2. PICK j \in DOMAIN list : list'[i] = list[j] /\ list[j] \in Connector
       BY <2>1, CleanupEffect
  <2>3. <<list[j], n>> \in Buffer
       BY <2>2 DEF Buffer
  <2>4. scan'[k] = <<list[j], n>>
       BY <2>1, <2>2
  <2>5. scan'[k] = scan[k] \/ scan'[k] \notin Buffer
       BY <2>1, CleanupEffect
  <2> QED
       BY <2>2, <2>3, <2>4, <2>5, CleanupEffect DEF IInv, Shown
<1>9. Complete'
  <2>1. SUFFICES ASSUME NEW i \in DOMAIN list', NEW n \in {0, 1}, n < nbufs
               PROVE  <<list'[i], n>> \in dumb \cap fbs \cap mapped
       BY CleanupEffect DEF Complete
  <2>2. PICK j \in DOMAIN list : list'[i] = list[j]
       BY <2>1, CleanupEffect
  <2> QED
       BY <2>1, <2>2 DEF IInv, Complete
<1>10. Owned'
     BY CleanupEffect
     DEF IInv, Owned
<1> QED
     BY <1>1, <1>2, <1>3, <1>4, <1>5, <1>6, <1>7, <1>8, <1>9, <1>10
     DEF IInv

LEMMA ExitStep ==
    ASSUME IInv, Exit
    PROVE  IInv'
<1>1. TypeOK'
  <2>1. list' \in Seq(Connector)
       BY ExitEffect
  <2> QED
       BY <2>1, ExitEffect DEF IInv, TypeOK, Label
<1>2. Loops'
     BY ExitEffect
     DEF IInv, Loops
<1>3. Prepare'
     BY ExitEffect
     DEF IInv, TypeOK, Prepare, Handled
<1>4. Pieces'
     BY ExitEffect
     DEF IInv, Pieces
<1>5. Pictures'
     BY ExitEffect
     DEF IInv, Pictures
<1>6. Restored'
     BY ExitEffect
     DEF IInv, TypeOK, Restored
<1>7. DistinctCrtcs'
     BY ExitEffect
     DEF IInv, DistinctCrtcs
<1>8. Shown'
     BY ExitEffect
     DEF IInv, TypeOK, Shown, Buffer
<1>9. Complete'
     BY ExitEffect
     DEF IInv, Complete
<1>10. Owned'
     BY ExitEffect
     DEF IInv, Owned
<1> QED
     BY <1>1, <1>2, <1>3, <1>4, <1>5, <1>6, <1>7, <1>8, <1>9, <1>10
     DEF IInv


LEMMA StutterStep ==
    ASSUME IInv, UNCHANGED vars
    PROVE  IInv'
  BY DEF IInv, vars, TypeOK, Loops, Prepare, Pieces, Pictures, Restored,
         DistinctCrtcs, Shown, Complete, Owned, Handled

\* The inductive invariant holds of every state of either program.
THEOREM Invariance == Spec => []IInv
<1>1. Init => IInv
     BY InitHolds
<1>2. IInv /\ [Next]_vars => IInv'
  <2> SUFFICES ASSUME IInv, [Next]_vars PROVE IInv'
       OBVIOUS
  <2>1. CASE Start
       BY <2>1, StartStep
  <2>2. CASE GetConnector
       BY <2>2, GetConnectorStep
  <2>3. CASE Prepared
       BY <2>3, PreparedStep
  <2>4. CASE SetupCrtc
       BY <2>4, SetupCrtcStep
  <2>5. CASE CreateDumb
       BY <2>5, CreateDumbStep
  <2>6. CASE AddFB
       BY <2>6, AddFBStep
  <2>7. CASE MapDumb
       BY <2>7, MapDumbStep
  <2>8. CASE Mmap
       BY <2>8, MmapStep
  <2>9. CASE ErrFb
       BY <2>9, ErrFbStep
  <2>10. CASE ErrDestroy
       BY <2>10, ErrDestroyStep
  <2>11. CASE Munmap
       BY <2>11, MunmapStep
  <2>12. CASE RmFB
       BY <2>12, RmFBStep
  <2>13. CASE DestroyDumb
       BY <2>13, DestroyDumbStep
  <2>14. CASE Save
       BY <2>14, SaveStep
  <2>15. CASE Show
       BY <2>15, ShowStep
  <2>16. CASE Draw
       BY <2>16, DrawStep
  <2>17. CASE Flip
       BY <2>17, FlipStep
  <2>18. CASE Cleanup
       BY <2>18, CleanupStep
  <2>19. CASE Exit
       BY <2>19, ExitStep
  <2>20. CASE UNCHANGED vars
       BY <2>20, StutterStep
  <2> QED
       BY <2>1, <2>2, <2>3, <2>4, <2>5, <2>6, <2>7, <2>8, <2>9, <2>10, <2>11,
          <2>12, <2>13, <2>14, <2>15, <2>16, <2>17, <2>18, <2>19, <2>20
       DEF Next, Ended
<1> QED
     BY <1>1, <1>2, PTL DEF Spec

-----------------------------------------------------------------------------
(* What it implies.                                                        *)

LEMMA Elements ==
    ASSUME IInv
    PROVE  /\ \A d \in Listed : \E i \in DOMAIN list : d = list[i]
           /\ \A i \in DOMAIN list : list[i] \in Connector /\ list[i] \in Listed
           /\ nbufs \in {1, 2}
           /\ \A d, b : b \in BuffersOf(d) =>
                 \E n \in {0, 1} : n < nbufs /\ b = <<d, n>>
  BY DEF IInv, TypeOK, Listed, BuffersOf

LEMMA FrontFollows == IInv => FrontIsShown
<1> SUFFICES ASSUME IInv, NEW d \in Listed, NEW k \in Crtc, scan[k] \in BuffersOf(d)
             PROVE  k = crtc[d] /\ scan[k] = <<d, front[d]>>
     BY DEF FrontIsShown
<1>1. PICK i \in DOMAIN list : d = list[i]
     BY Elements
<1>2. PICK n \in {0, 1} : scan[k] = <<d, n>>
     BY Elements
<1> QED
     BY <1>1, <1>2 DEF IInv, Shown

LEMMA BackFollows == IInv => NeverDrawFront
<1> SUFFICES ASSUME IInv, nbufs = 2, pc = "flip", NEW k \in Crtc,
                    scan[k] = Back(Device)
             PROVE  FALSE
     BY DEF NeverDrawFront
<1>1. iter \in DOMAIN list /\ Device = list[iter] /\ Device \in Connector
     BY DeviceAt
<1>2. front[Device] \in {0, 1} /\ 1 - front[Device] \in {0, 1}
     BY <1>1 DEF IInv, TypeOK
<1>3. scan[k] = <<list[iter], 1 - front[Device]>>
     BY <1>1 DEF Back
<1>4. 1 - front[Device] = front[Device]
     BY <1>1, <1>2, <1>3 DEF IInv, Shown
<1> QED
     BY <1>2, <1>4

LEMMA BuffersFollow == IInv => BuffersComplete
<1> SUFFICES ASSUME IInv, NEW d \in Listed, NEW b \in BuffersOf(d)
             PROVE  b \in dumb \cap fbs \cap mapped
     BY DEF BuffersComplete
<1>1. PICK i \in DOMAIN list : d = list[i]
     BY Elements
<1>2. PICK n \in {0, 1} : n < nbufs /\ b = <<d, n>>
     BY Elements
<1> QED
     BY <1>1, <1>2 DEF IInv, Complete

LEMMA OwnerFollows == IInv => NoLeak
  BY Elements DEF IInv, Owned, NoLeak

\* Type correctness, for any hardware.
THEOREM TypeCorrect == Spec => []TypeOK
<1>1. IInv => TypeOK
     BY DEF IInv
<1> QED
     BY <1>1, Invariance, PTL

\* No two linked devices have the same CRTC, however many connectors share
\* encoders and CRTCs and whichever encoders cannot be read: what
\* modeset_find_crtc is for.
THEOREM CrtcsDistinct == Spec => []DistinctCrtcs
<1>1. IInv => DistinctCrtcs
     BY DEF IInv
<1> QED
     BY <1>1, Invariance, PTL

\* front_buf follows the screen: a linked device's buffer is scanned out by
\* that device's CRTC only, and it is the front buffer, after any number of
\* flips of which any may fail.
THEOREM FrontShown == Spec => []FrontIsShown
<1> QED
     BY FrontFollows, Invariance, PTL

\* The double-buffered modeset_draw never draws into a buffer on a screen.
THEOREM DrawsBack == Spec => []NeverDrawFront
<1> QED
     BY BackFollows, Invariance, PTL

\* Every linked device has all of its buffers, framebuffers and mappings.
THEOREM LinkedComplete == Spec => []BuffersComplete
<1> QED
     BY BuffersFollow, Invariance, PTL

\* The error paths of modeset_create_fb and modeset_setup_dev release all they
\* took: nothing in the kernel belongs to a device that has been freed.
THEOREM NothingLeaks == Spec => []NoLeak
<1> QED
     BY OwnerFollows, Invariance, PTL

\* A CRTC that was put back stays as it was saved until the program has ended:
\* removing the framebuffers of its device and of the others, and restoring
\* other CRTCs, does not disturb it.
THEOREM ResetStays == Spec => []ResetToSaved
<1>1. IInv => ResetToSaved
     BY DEF IInv, Restored, ResetToSaved
<1> QED
     BY <1>1, Invariance, PTL

=============================================================================
