---------------------------- MODULE DevicesProofs ----------------------------
(***************************************************************************)
(* Proofs about what the UserDO keeps and tells of a user's devices: the   *)
(* key tables (DeviceKeys) and the calls that tell others they changed     *)
(* (DeviceLists).                                                          *)
(*                                                                         *)
(* KeysInv is inductive for any devices, keys, signers and cross-signing   *)
(* uploads under way; with it a cross-signing key is replaced only with    *)
(* authentication, and whatever a key query answers differently is named   *)
(* as a change.  ListsInv is inductive for any users, rooms and calls, so  *)
(* that no peer is told of a departure it can see through, and none that   *)
(* goes on sharing a room is left out of a change without a failure.       *)
(***************************************************************************)
EXTENDS DeviceKeys, DeviceLists, SequenceTheorems, TLAPS

-----------------------------------------------------------------------------
(* DeviceKeys *)

(* The stream *)

\* An entry is appended, at the position after the last.
LEMMA Extended ==
  ASSUME TypeOK, NEW named \in BOOLEAN, Extend(named)
  PROVE  /\ stream' \in Seq(BOOLEAN) /\ pos' = pos + 1 /\ pos' <= MaxPos /\ pos \in Nat
         /\ stream'[pos'] = named
<1>1. stream \in Seq(BOOLEAN) /\ stream' = Append(stream, named) /\ pos < MaxPos /\ pos \in Nat
  BY LenProperties DEF TypeOK, Extend, pos
<1>2. stream' \in Seq(BOOLEAN) /\ Len(stream') = Len(stream) + 1 /\ stream'[Len(stream) + 1] = named
  BY <1>1, AppendProperties
<1> QED BY <1>1, <1>2, MaxPosIsNat DEF pos

\* The stream is as it was or has an entry more.
Longer ==
  /\ stream' \in Seq(BOOLEAN) /\ pos \in Nat /\ pos' \in {pos, pos + 1} /\ pos' <= MaxPos

LEMMA StreamKept ==
  ASSUME TypeOK, stream' = stream
  PROVE  Longer
<1>1. stream \in Seq(BOOLEAN) /\ pos \in Nat
  BY LenProperties DEF TypeOK, pos
<1> QED BY <1>1 DEF TypeOK, Longer, pos

LEMMA StreamExtended ==
  ASSUME TypeOK, NEW named \in BOOLEAN, Extend(named)
  PROVE  Longer
BY Extended DEF Longer

\* What was typed by positions of the stream is typed by those of a longer one.
LEMMA Widen ==
  ASSUME TypeOK, Longer
  PROVE  /\ Records \subseteq Records'
         /\ identity \in [Devices -> {None} \cup Records']
         /\ unclaimed \in [Devices -> [KeyIds -> 0..pos']]
<1>1. 1..pos \subseteq 1..pos' /\ 0..pos \subseteq 0..pos'
  BY DEF Longer
<1>2. Records \subseteq Records'
  BY <1>1 DEF Records
<1> QED BY <1>1, <1>2 DEF TypeOK

-----------------------------------------------------------------------------
(* The key tables *)

\* What a step of the key tables has to keep: the rest of the invariant is
\* about the cross-signing keys.
TablesKept ==
  /\ identity' \in [Devices -> {None} \cup Records'] /\ unclaimed' \in [Devices -> [KeyIds -> 0..pos']]
  /\ devices' \in [Devices -> {"live", "deleted"}]
  /\ fallback' \in [Devices -> {"none", "unused", "used"}]
  /\ published' \in [Devices -> [KeyIds -> Nat]] /\ handed' \in [Devices -> [KeyIds -> Nat]]
  /\ NoKeysOfDeleted' /\ HandedOutOnce' /\ SignaturesFit'

LEMMA TablesStep ==
  ASSUME KeysInv, TablesKept, Longer, UNCHANGED <<signing, uploads>>
  PROVE  KeysInv'
<1>1. TypeOK'
  BY DEF KeysInv, TypeOK, TablesKept, Longer, signing
<1>2. MasterFirst' /\ ExaminedWell'
  BY DEF KeysInv, MasterFirst, ExaminedWell, signing
<1> QED BY <1>1, <1>2 DEF KeysInv, TablesKept

LEMMA UploadStep ==
  ASSUME KeysInv, NEW d \in Devices, NEW ks \in SUBSET KeyIds, NEW i \in BOOLEAN, NEW f \in BOOLEAN,
         UploadKeys(d, ks, i, f)
  PROVE  KeysInv'
<1> DEFINE newRecord == [content |-> pos + 1, signatures |-> {}]
           keys == [k \in KeyIds |-> IF k \in ks THEN pos + 1 ELSE unclaimed[d][k]]
           times == [k \in KeyIds |-> published[d][k] + IF k \in ks THEN 1 ELSE 0]
<1>1. /\ devices[d] = "live" /\ Extend(i)
      /\ identity' = IF i THEN [identity EXCEPT ![d] = newRecord] ELSE identity
      /\ unclaimed' = [unclaimed EXCEPT ![d] = keys]
      /\ fallback' = IF f THEN [fallback EXCEPT ![d] = "unused"] ELSE fallback
      /\ published' = [published EXCEPT ![d] = times]
      /\ UNCHANGED <<devices, signing, uploads, handed>>
  BY DEF UploadKeys, Names
<1>2. TypeOK
  BY DEF KeysInv
<1>3. Longer /\ pos' = pos + 1 /\ pos \in Nat
  BY <1>1, <1>2, Extended, StreamExtended
<1>4. /\ identity \in [Devices -> {None} \cup Records']
      /\ unclaimed \in [Devices -> [KeyIds -> 0..pos']]
  BY <1>2, <1>3, Widen
<1>5. newRecord \in Records' /\ keys \in [KeyIds -> 0..pos'] /\ times \in [KeyIds -> Nat]
  <2>1. newRecord \in Records'
    BY <1>3 DEF Records
  <2>2. keys \in [KeyIds -> 0..pos']
    BY <1>3, <1>4
  <2>3. times \in [KeyIds -> Nat]
    BY <1>2 DEF TypeOK
  <2> QED BY <2>1, <2>2, <2>3
<1>6. /\ newRecord.content = pos + 1 /\ newRecord.signatures = {}
      /\ \A k \in KeyIds : /\ keys[k] = IF k \in ks THEN pos + 1 ELSE unclaimed[d][k]
                           /\ times[k] = published[d][k] + IF k \in ks THEN 1 ELSE 0
  OBVIOUS
<1> HIDE DEF newRecord, keys, times
<1>7. /\ identity' \in [Devices -> {None} \cup Records'] /\ unclaimed' \in [Devices -> [KeyIds -> 0..pos']]
      /\ fallback' \in [Devices -> {"none", "unused", "used"}]
      /\ published' \in [Devices -> [KeyIds -> Nat]]
  <2>1. identity' \in [Devices -> {None} \cup Records']
    BY <1>1, <1>4, <1>5
  <2>2. unclaimed' \in [Devices -> [KeyIds -> 0..pos']]
    BY <1>1, <1>4, <1>5
  <2> QED BY <1>1, <1>2, <1>5, <2>1, <2>2 DEF TypeOK
<1>8. NoKeysOfDeleted'
  BY <1>1, <1>2 DEF KeysInv, NoKeysOfDeleted, TypeOK
<1>9. HandedOutOnce'
  <2> SUFFICES ASSUME NEW e \in Devices, NEW k \in KeyIds
               PROVE  handed'[e][k] + (IF unclaimed'[e][k] # 0 THEN 1 ELSE 0) <= published'[e][k]
    BY DEF HandedOutOnce
  <2>1. /\ handed[e][k] + (IF unclaimed[e][k] # 0 THEN 1 ELSE 0) <= published[e][k]
        /\ handed[e][k] \in Nat /\ published[e][k] \in Nat /\ handed' = handed
    BY <1>1, <1>2 DEF KeysInv, HandedOutOnce, TypeOK
  <2>2. CASE e = d
    <3>1. unclaimed'[e] = keys /\ published'[e] = times
      BY <1>1, <1>2, <2>2 DEF TypeOK
    <3> QED BY <1>6, <2>1, <2>2, <3>1
  <2>3. CASE e # d
    <3>1. unclaimed'[e] = unclaimed[e] /\ published'[e] = published[e]
      BY <1>1, <1>2, <2>3 DEF TypeOK
    <3> QED BY <2>1, <3>1
  <2> QED BY <2>2, <2>3
<1>10. SignaturesFit'
  BY <1>1, <1>2, <1>6 DEF KeysInv, SignaturesFit, TypeOK
<1> QED BY <1>1, <1>2, <1>3, <1>7, <1>8, <1>9, <1>10, TablesStep DEF TypeOK, TablesKept

LEMMA ClaimStep ==
  ASSUME KeysInv, NEW d \in Devices, ClaimKey(d)
  PROVE  KeysInv'
<1>1. Extend(FALSE) /\ UNCHANGED <<devices, identity, signing, uploads, published>>
  BY DEF ClaimKey, Claim
<1>2. TypeOK
  BY DEF KeysInv
<1>3. Longer
  BY <1>1, <1>2, StreamExtended
<1>4. /\ identity \in [Devices -> {None} \cup Records']
      /\ unclaimed \in [Devices -> [KeyIds -> 0..pos']]
  BY <1>2, <1>3, Widen
<1>5. CASE \E k \in Oldest(d) : /\ GiveOut(d, k) /\ unclaimed' = [unclaimed EXCEPT ![d][k] = 0]
                                /\ UNCHANGED fallback
  <2> PICK k \in Oldest(d) : /\ GiveOut(d, k) /\ unclaimed' = [unclaimed EXCEPT ![d][k] = 0]
                             /\ UNCHANGED fallback
    BY <1>5
  <2>1. k \in KeyIds /\ unclaimed[d][k] # 0 /\ handed' = [handed EXCEPT ![d][k] = handed[d][k] + 1]
    BY DEF Oldest, GiveOut
  <2> DEFINE keys == [unclaimed[d] EXCEPT ![k] = 0]
             times == [handed[d] EXCEPT ![k] = handed[d][k] + 1]
  <2>2. unclaimed' = [unclaimed EXCEPT ![d] = keys] /\ handed' = [handed EXCEPT ![d] = times]
    BY <1>2, <2>1 DEF TypeOK
  <2>3. /\ keys \in [KeyIds -> 0..pos'] /\ times \in [KeyIds -> Nat]
        /\ keys[k] = 0 /\ times[k] = handed[d][k] + 1
        /\ \A l \in KeyIds : l # k => keys[l] = unclaimed[d][l] /\ times[l] = handed[d][l]
    BY <1>2, <1>3, <1>4, <2>1 DEF TypeOK, Longer
  <2> HIDE DEF keys, times
  <2>4. /\ unclaimed' \in [Devices -> [KeyIds -> 0..pos']] /\ handed' \in [Devices -> [KeyIds -> Nat]]
        /\ unclaimed'[d] = keys /\ handed'[d] = times
        /\ \A e \in Devices : e # d => unclaimed'[e] = unclaimed[e] /\ handed'[e] = handed[e]
    <3>1. handed \in [Devices -> [KeyIds -> Nat]]
      BY <1>2 DEF TypeOK
    <3>2. unclaimed' \in [Devices -> [KeyIds -> 0..pos']]
      BY <1>4, <2>2, <2>3
    <3>3. handed' \in [Devices -> [KeyIds -> Nat]]
      BY <2>2, <2>3, <3>1
    <3> QED BY <1>4, <2>2, <3>1, <3>2, <3>3
  <2>5. HandedOutOnce'
    <3> SUFFICES ASSUME NEW e \in Devices, NEW l \in KeyIds
                 PROVE  handed'[e][l] + (IF unclaimed'[e][l] # 0 THEN 1 ELSE 0) <= published[e][l]
      BY <1>1 DEF HandedOutOnce
    <3>1. /\ handed[e][l] + (IF unclaimed[e][l] # 0 THEN 1 ELSE 0) <= published[e][l]
          /\ handed[e][l] \in Nat /\ published[e][l] \in Nat
      BY <1>2 DEF KeysInv, HandedOutOnce, TypeOK
    <3> QED BY <2>1, <2>3, <2>4, <3>1
  <2>6. NoKeysOfDeleted'
    <3>1. devices[d] # "deleted"
      BY <2>1 DEF KeysInv, NoKeysOfDeleted, NoKeys
    <3> QED BY <1>1, <2>4, <3>1 DEF KeysInv, NoKeysOfDeleted
  <2>7. SignaturesFit'
    BY <1>1 DEF KeysInv, SignaturesFit
  <2> QED BY <1>1, <1>2, <1>3, <1>4, <2>4, <2>5, <2>6, <2>7, TablesStep DEF TypeOK, TablesKept
<1>6. CASE /\ fallback[d] = "unused" /\ fallback' = [fallback EXCEPT ![d] = "used"]
           /\ UNCHANGED <<unclaimed, handed>>
  <2>1. HandedOutOnce' /\ SignaturesFit'
    BY <1>1, <1>6 DEF KeysInv, HandedOutOnce, SignaturesFit
  <2>2. NoKeysOfDeleted' /\ fallback' \in [Devices -> {"none", "unused", "used"}]
    BY <1>1, <1>2, <1>6 DEF KeysInv, NoKeysOfDeleted, TypeOK
  <2> QED BY <1>1, <1>2, <1>3, <1>4, <1>6, <2>1, <2>2, TablesStep DEF TypeOK, TablesKept
<1> QED BY <1>5, <1>6 DEF ClaimKey, Claim

LEMMA DeleteStep ==
  ASSUME KeysInv, NEW d \in Devices, DeleteDevice(d)
  PROVE  KeysInv'
<1>1. /\ devices' = [devices EXCEPT ![d] = "deleted"] /\ identity' = [identity EXCEPT ![d] = None]
      /\ unclaimed' = [unclaimed EXCEPT ![d] = NoKeys] /\ fallback' = [fallback EXCEPT ![d] = "none"]
      /\ UNCHANGED <<signing, uploads, history>> /\ (Extend(TRUE) \/ UNCHANGED stream)
  BY DEF DeleteDevice, Cleared
<1>2. TypeOK
  BY DEF KeysInv
<1>3. Longer
  BY <1>1, <1>2, StreamExtended, StreamKept
<1>4. /\ identity \in [Devices -> {None} \cup Records']
      /\ unclaimed \in [Devices -> [KeyIds -> 0..pos']] /\ NoKeys \in [KeyIds -> 0..pos']
  BY <1>2, <1>3, Widen DEF NoKeys, Longer
<1>5. /\ identity' \in [Devices -> {None} \cup Records'] /\ unclaimed' \in [Devices -> [KeyIds -> 0..pos']]
      /\ devices' \in [Devices -> {"live", "deleted"}]
      /\ fallback' \in [Devices -> {"none", "unused", "used"}]
  BY <1>1, <1>2, <1>4 DEF TypeOK
<1>6. NoKeysOfDeleted'
  BY <1>1, <1>2 DEF KeysInv, NoKeysOfDeleted, TypeOK
<1>7. HandedOutOnce'
  <2> SUFFICES ASSUME NEW e \in Devices, NEW k \in KeyIds
               PROVE  handed'[e][k] + (IF unclaimed'[e][k] # 0 THEN 1 ELSE 0) <= published'[e][k]
    BY DEF HandedOutOnce
  <2>1. /\ handed[e][k] + (IF unclaimed[e][k] # 0 THEN 1 ELSE 0) <= published[e][k]
        /\ handed[e][k] \in Nat /\ published[e][k] \in Nat
        /\ handed' = handed /\ published' = published
    BY <1>1, <1>2 DEF KeysInv, HandedOutOnce, TypeOK, history
  <2>2. unclaimed'[e][k] # 0 => unclaimed[e][k] # 0
    BY <1>1, <1>2 DEF TypeOK, NoKeys
  <2> QED BY <2>1, <2>2
<1>8. SignaturesFit'
  BY <1>1, <1>2 DEF KeysInv, SignaturesFit, TypeOK
<1> QED BY <1>1, <1>2, <1>3, <1>5, <1>6, <1>7, <1>8, TablesStep DEF TypeOK, TablesKept, history

LEMMA LoginStep ==
  ASSUME KeysInv, NEW d \in Devices, Login(d)
  PROVE  KeysInv'
<1>1. /\ devices' = [devices EXCEPT ![d] = "live"]
      /\ UNCHANGED <<identity, unclaimed, fallback, signing, stream, uploads, history>>
  BY DEF Login
<1>2. TypeOK
  BY DEF KeysInv
<1>3. Longer
  BY <1>1, <1>2, StreamKept
<1>4. /\ identity' \in [Devices -> {None} \cup Records']
      /\ unclaimed' \in [Devices -> [KeyIds -> 0..pos']]
  BY <1>1, <1>2, <1>3, Widen
<1>5. NoKeysOfDeleted' /\ devices' \in [Devices -> {"live", "deleted"}]
  BY <1>1, <1>2 DEF KeysInv, NoKeysOfDeleted, TypeOK
<1>6. HandedOutOnce' /\ SignaturesFit'
  BY <1>1 DEF KeysInv, HandedOutOnce, SignaturesFit, history
<1> QED BY <1>1, <1>2, <1>3, <1>4, <1>5, <1>6, TablesStep DEF TypeOK, TablesKept, history

\* A signature is attached to the record that it was made on.
LEMMA SignStep ==
  ASSUME KeysInv, NEW d \in Devices, NEW s \in Signers, NEW content \in 1..pos,
         Sign(d, s, content)
  PROVE  KeysInv'
<1> DEFINE old == identity[d]
           signatures == old.signatures \cup {<<s, content>>}
           newRecord == [old EXCEPT !.signatures = signatures]
<1>1. /\ old # None /\ old.content = content /\ Extend(TRUE)
      /\ identity' = [identity EXCEPT ![d].signatures = signatures]
      /\ UNCHANGED <<devices, unclaimed, fallback, signing, uploads, history>>
  BY DEF Sign, Signable
<1>2. TypeOK
  BY DEF KeysInv
<1>3. Longer
  BY <1>1, <1>2, StreamExtended
<1>4. /\ Records \subseteq Records' /\ identity \in [Devices -> {None} \cup Records']
      /\ unclaimed \in [Devices -> [KeyIds -> 0..pos']]
  BY <1>2, <1>3, Widen
<1>5. identity' = [identity EXCEPT ![d] = newRecord]
  BY <1>1, <1>2 DEF TypeOK
<1>6. old \in Records /\ signatures \in SUBSET (Signers \X (1..pos))
  BY <1>1, <1>2 DEF TypeOK, Records
<1>7. \A t \in signatures : t[2] = old.content
  BY <1>1 DEF KeysInv, SignaturesFit
<1> HIDE DEF signatures
<1>8. newRecord \in Records /\ newRecord.content = old.content /\ newRecord.signatures = signatures
  BY <1>6, Zenon DEF Records
<1> HIDE DEF newRecord
<1>9. identity' \in [Devices -> {None} \cup Records']
  BY <1>4, <1>5, <1>8
<1>10. SignaturesFit'
  BY <1>2, <1>5, <1>7, <1>8 DEF KeysInv, SignaturesFit, TypeOK
<1>11. NoKeysOfDeleted'
  BY <1>1, <1>2, <1>5 DEF KeysInv, NoKeysOfDeleted, TypeOK
<1>12. HandedOutOnce'
  BY <1>1 DEF KeysInv, HandedOutOnce, history
<1> QED BY <1>1, <1>2, <1>3, <1>4, <1>9, <1>10, <1>11, <1>12, TablesStep
        DEF TypeOK, TablesKept, history

-----------------------------------------------------------------------------
(* Cross-signing *)

\* A step that leaves the key tables alone.
LEMMA SigningStep ==
  ASSUME KeysInv, Longer, UNCHANGED <<tables, history>>, cross' \in Keys,
         memory' \in {None} \cup [nonce : Nonces, req : Requests],
         uploads' \in [Handlers -> {Idle} \cup Examined], MasterFirst', ExaminedWell'
  PROVE  KeysInv'
<1>1. TypeOK
  BY DEF KeysInv
<1>2. /\ identity' \in [Devices -> {None} \cup Records']
      /\ unclaimed' \in [Devices -> [KeyIds -> 0..pos']]
  BY <1>1, Widen DEF tables
<1>3. TypeOK'
  BY <1>1, <1>2 DEF TypeOK, Longer, tables, history
<1>4. NoKeysOfDeleted' /\ HandedOutOnce' /\ SignaturesFit'
  BY DEF KeysInv, NoKeysOfDeleted, HandedOutOnce, SignaturesFit, tables, history
<1> QED BY <1>3, <1>4 DEF KeysInv

LEMMA StartStep ==
  ASSUME KeysInv, NEW h \in Handlers, NEW req \in Requests, NEW nonce \in Nonces \cup {None},
         StartCrossSigning(h, req, nonce)
  PROVE  KeysInv'
<1> DEFINE upload == [pc |-> "upload", req |-> req, nonce |-> nonce, seen |-> cross]
<1>1. /\ IF RequiresUia(cross, req) THEN nonce \in Nonces ELSE nonce = None
      /\ uploads' = [uploads EXCEPT ![h] = upload]
      /\ UNCHANGED <<tables, signing, stream, history>>
  BY DEF StartCrossSigning
<1>2. TypeOK
  BY DEF KeysInv
<1>3. upload \in Examined /\ upload.seen = cross /\ upload.nonce = nonce /\ upload.req = req
  BY <1>2 DEF TypeOK, Examined
<1> HIDE DEF upload
<1>4. /\ uploads' \in [Handlers -> {Idle} \cup Examined]
      /\ uploads'[h] = upload /\ \A g \in Handlers : g # h => uploads'[g] = uploads[g]
  BY <1>1, <1>2, <1>3 DEF TypeOK
<1>5. ExaminedWell'
  BY <1>1, <1>3, <1>4, NoneIsNothing DEF KeysInv, ExaminedWell, MasterFirst
<1>6. MasterFirst' /\ Longer
  BY <1>1, <1>2, StreamKept DEF KeysInv, MasterFirst, signing
<1> QED BY <1>1, <1>2, <1>4, <1>5, <1>6, SigningStep DEF TypeOK, signing

\* The store that results from an upload.
Stored(req) == [u \in Usages |-> IF req[u] = None THEN cross[u] ELSE req[u]]

LEMMA StoredKeys ==
  ASSUME KeysInv, NEW req \in Requests, cross["master"] # None \/ req["master"] # None
  PROVE  Stored(req) \in Keys /\ HasMaster(Stored(req))
<1>1. cross \in Keys /\ req \in Keys
  BY DEF KeysInv, TypeOK, Requests, Keys
<1> QED BY <1>1 DEF Stored, Keys, HasMaster, Usages

\* The second call of an upload ends it, and stores it unless it is refused.
LEMMA UploadEnds ==
  ASSUME KeysInv, NEW h \in Handlers, UploadCrossSigning(h)
  PROVE  /\ uploads[h] \in Examined /\ uploads' = [uploads EXCEPT ![h] = Idle]
         /\ UNCHANGED <<tables, history>>
         /\ \/ UNCHANGED <<signing, stream>>
            \/ /\ cross' = Stored(uploads[h].req) /\ HasMaster(cross)' /\ cross' \in Keys
               /\ memory' \in {None} \cup [nonce : Nonces, req : Requests]
               /\ IF cross' # cross THEN Extend(TRUE) ELSE UNCHANGED stream
<1> DEFINE req == uploads[h].req
           nonce == uploads[h].nonce
<1>1. /\ uploads[h].pc = "upload" /\ uploads' = [uploads EXCEPT ![h] = Idle]
      /\ UNCHANGED <<tables, history>>
      /\ IF Refused(req, nonce)
         THEN UNCHANGED <<signing, stream>>
         ELSE /\ cross' = Stored(req)
              /\ memory' = IF nonce = None THEN memory ELSE [nonce |-> nonce, req |-> req]
              /\ IF Stored(req) # cross THEN Extend(TRUE) ELSE UNCHANGED stream
  BY DEF UploadCrossSigning, Stored
<1>2. TypeOK
  BY DEF KeysInv
<1>3. uploads[h] \in Examined
  BY <1>1, <1>2 DEF TypeOK, Idle
<1>4. req \in Requests /\ nonce \in Nonces \cup {None}
  BY <1>3 DEF Examined
<1>5. CASE Refused(req, nonce)
  BY <1>1, <1>3, <1>5
<1>6. CASE ~Refused(req, nonce)
  <2>1. cross["master"] # None \/ req["master"] # None
    BY <1>6 DEF Refused
  <2>2. Stored(req) \in Keys /\ HasMaster(Stored(req))
    BY <1>4, <2>1, StoredKeys
  <2>3. memory' \in {None} \cup [nonce : Nonces, req : Requests]
    BY <1>1, <1>2, <1>4, <1>6 DEF TypeOK
  <2>4. HasMaster(cross)'
    BY <1>1, <1>6, <2>2 DEF HasMaster
  <2> QED BY <1>1, <1>3, <1>6, <2>2, <2>3, <2>4
<1> QED BY <1>5, <1>6

LEMMA UploadCrossStep ==
  ASSUME KeysInv, NEW h \in Handlers, UploadCrossSigning(h)
  PROVE  KeysInv'
<1>1. TypeOK
  BY DEF KeysInv
<1>2. uploads' \in [Handlers -> {Idle} \cup Examined]
  BY <1>1, UploadEnds DEF TypeOK
<1>3. ExaminedWell'
  BY <1>1, UploadEnds DEF KeysInv, ExaminedWell, TypeOK
<1>4. Longer
  BY <1>1, UploadEnds, StreamKept, StreamExtended
<1>5. CASE UNCHANGED <<signing, stream>>
  <2>1. MasterFirst'
    BY <1>5 DEF KeysInv, MasterFirst, signing
  <2> QED BY <1>1, <1>2, <1>3, <1>4, <1>5, <2>1, UploadEnds, SigningStep DEF TypeOK, signing
<1>6. CASE /\ HasMaster(cross)' /\ cross' \in Keys
           /\ memory' \in {None} \cup [nonce : Nonces, req : Requests]
  BY <1>2, <1>3, <1>4, <1>6, UploadEnds, SigningStep DEF MasterFirst
<1> QED BY <1>5, <1>6, UploadEnds

-----------------------------------------------------------------------------
(* The invariant *)

LEMMA InitKeys == Init => KeysInv
<1> SUFFICES ASSUME Init PROVE KeysInv
  OBVIOUS
<1>1. stream \in Seq(BOOLEAN) /\ pos = 0
  BY DEF Init, pos
<1>2. /\ unclaimed \in [Devices -> [KeyIds -> 0..pos]] /\ published \in [Devices -> [KeyIds -> Nat]]
      /\ handed \in [Devices -> [KeyIds -> Nat]]
  BY <1>1 DEF Init, NoKeys
<1>3. TypeOK
  BY <1>1, <1>2, MaxPosIsNat DEF Init, TypeOK, Keys
<1>4. HandedOutOnce
  BY DEF Init, NoKeys, HandedOutOnce
<1>5. NoKeysOfDeleted /\ SignaturesFit
  BY DEF Init, NoKeysOfDeleted, SignaturesFit
<1>6. MasterFirst /\ ExaminedWell
  BY DEF Init, MasterFirst, HasMaster, ExaminedWell, Usages
<1> QED BY <1>3, <1>4, <1>5, <1>6 DEF KeysInv

LEMMA KeysStutter == KeysInv /\ UNCHANGED vars => KeysInv'
<1> SUFFICES ASSUME KeysInv, UNCHANGED vars PROVE KeysInv'
  OBVIOUS
<1>1. TypeOK /\ UNCHANGED <<tables, signing, stream, uploads, history>>
  BY DEF KeysInv, vars
<1>2. Longer
  BY <1>1, StreamKept
<1>3. MasterFirst' /\ ExaminedWell'
  BY <1>1 DEF KeysInv, MasterFirst, ExaminedWell, signing
<1> QED BY <1>1, <1>2, <1>3, SigningStep DEF TypeOK, signing

LEMMA KeysNext == KeysInv /\ [Next]_vars => KeysInv'
<1> SUFFICES ASSUME KeysInv, [Next]_vars PROVE KeysInv'
  OBVIOUS
<1>1. CASE UNCHANGED vars
  BY <1>1, KeysStutter
<1>2. CASE HandleKeysUpload
  BY <1>2, UploadStep DEF HandleKeysUpload
<1>3. CASE HandleKeysClaim
  BY <1>3, ClaimStep DEF HandleKeysClaim
<1>4. CASE HandleSignaturesUpload
  BY <1>4, SignStep DEF HandleSignaturesUpload
<1>5. CASE \E h \in Handlers : HandleCrossSigningUpload(h)
  BY <1>5, StartStep, UploadCrossStep DEF HandleCrossSigningUpload
<1>6. CASE \E d \in Devices : DeleteDevice(d) \/ Login(d)
  BY <1>6, DeleteStep, LoginStep
<1> QED BY <1>1, <1>2, <1>3, <1>4, <1>5, <1>6 DEF Next

\* uploadKeys, claimOneTimeKeys, uploadSignatures, deleteDevice and
\* uploadCrossSigningKeys: a deleted device has no keys, a one-time key is
\* given out at most once per upload, and a signature stays with the record it
\* was made on, for any number of devices, keys and requests that overlap.
THEOREM KeysInvariant == Spec => []KeysInv
BY InitKeys, KeysNext, PTL DEF Spec

-----------------------------------------------------------------------------
(* Steps *)

\* The body of ReplacedWithAuth
Authenticated ==
  \A h \in Handlers, u \in Usages :
     /\ uploads[h] # Idle /\ uploads'[h] = Idle
     /\ uploads[h].seen[u] = cross[u] /\ cross[u] # None /\ cross'[u] # cross[u]
     => uploads[h].nonce # None

\* What needed no authentication when it was examined replaces nothing that is
\* still as it was then.
LEMMA AuthenticatedStep == KeysInv /\ [Next]_vars => [Authenticated]_vars
<1> SUFFICES ASSUME KeysInv, [Next]_vars PROVE Authenticated
  OBVIOUS
<1>1. TypeOK
  BY DEF KeysInv
<1> SUFFICES ASSUME NEW h \in Handlers, NEW u \in Usages, uploads[h] # Idle, uploads'[h] = Idle,
                    uploads[h].seen[u] = cross[u], cross[u] # None, cross'[u] # cross[u],
                    uploads[h].nonce = None
             PROVE  FALSE
  BY DEF Authenticated
<1>2. PICK g \in Handlers : UploadCrossSigning(g)
  <2>1. ~UNCHANGED cross
    OBVIOUS
  <2>2. \E g \in Handlers : HandleCrossSigningUpload(g)
    BY <2>1 DEF Next, vars, signing, HandleKeysUpload, UploadKeys, HandleKeysClaim, ClaimKey,
                HandleSignaturesUpload, Sign, DeleteDevice, Login
  <2> QED BY <2>1, <2>2 DEF HandleCrossSigningUpload, StartCrossSigning, signing
<1>3. g = h
  BY <1>1, <1>2, UploadEnds DEF TypeOK
<1> DEFINE req == uploads[h].req
           seen == uploads[h].seen
<1>4. cross' = Stored(req)
  BY <1>2, <1>3, UploadEnds DEF signing
<1>5. HasMaster(seen) /\ ~RequiresUia(seen, req)
  BY DEF KeysInv, ExaminedWell
<1>6. seen["master"] # None
  BY <1>5 DEF HasMaster, Usages
<1>7. req["master"] = seen["master"] /\ req["self_signing"] \in {None, seen["self_signing"]}
  BY <1>5, <1>6 DEF RequiresUia
<1>8. cross'[u] = IF req[u] = None THEN cross[u] ELSE req[u]
  BY <1>4 DEF Stored
<1> HIDE DEF req, seen
<1> QED BY <1>7, <1>8 DEF Usages, seen

\* handleCrossSigningUpload examines a request in one call and uploads it in a
\* later one: a key that is still the one it examined is not replaced without
\* interactive authentication, whatever other uploads took place in between.
THEOREM ReplacementsAreAuthenticated == Spec => ReplacedWithAuth
<1>1. KeysInv /\ [Next]_vars => [Authenticated]_vars
  BY AuthenticatedStep
<1> QED BY <1>1, KeysInvariant, PTL DEF Spec, ReplacedWithAuth, Authenticated

\* The body of ChangesAreNamed
Named ==
  \A asked \in SUBSET Devices : Query(asked)' # Query(asked) =>
     \A from \in 0..pos : ChangesBetween(from, Len(stream))'

\* Which devices a query returns, and what of each, is all it depends on.
LEMMA SameAnswer ==
  ASSUME cross' = cross, NEW asked \in SUBSET Devices,
         \A d \in Devices : (devices'[d] = "live" /\ identity'[d] # None) <=>
                            (devices[d] = "live" /\ identity[d] # None),
         \A d \in Devices : devices[d] = "live" /\ identity[d] # None => identity'[d] = identity[d]
  PROVE  Query(asked)' = Query(asked)
<1> DEFINE A == IF asked = {} THEN Devices ELSE asked
           S == {x \in A : devices[x] = "live" /\ identity[x] # None}
<1>1. S' = S
  OBVIOUS
<1>2. [d \in S' |-> identity'[d]] = [d \in S |-> identity[d]]
  BY <1>1
<1> QED BY <1>1, <1>2 DEF Query, Snapshot

LEMMA NamedStep == KeysInv /\ [Next]_vars => [Named]_vars
<1> SUFFICES ASSUME KeysInv, [Next]_vars PROVE Named
  OBVIOUS
<1>1. TypeOK
  BY DEF KeysInv
<1>2. CASE Extend(TRUE)
  <2>1. pos' = pos + 1 /\ pos \in Nat /\ stream'[pos'] = TRUE
    BY <1>1, <1>2, Extended
  <2> QED BY <2>1 DEF Named, ChangesBetween, pos
<1>3. ASSUME cross' = cross, devices' = devices, identity' = identity PROVE Named
  BY <1>3, SameAnswer DEF Named
<1>4. CASE UNCHANGED vars
  BY <1>3, <1>4 DEF vars, tables, signing
<1>5. CASE HandleKeysUpload
  BY <1>2, <1>3, <1>5 DEF HandleKeysUpload, UploadKeys, Names, signing
<1>6. CASE HandleKeysClaim
  BY <1>3, <1>6 DEF HandleKeysClaim, ClaimKey, signing
<1>7. CASE HandleSignaturesUpload
  BY <1>2, <1>7 DEF HandleSignaturesUpload, Sign
<1>8. ASSUME NEW h \in Handlers, HandleCrossSigningUpload(h) PROVE Named
  <2>1. CASE UploadCrossSigning(h)
    BY <1>2, <1>3, <2>1, UploadEnds DEF signing, tables
  <2>2. CASE UNCHANGED <<tables, signing>>
    BY <1>3, <2>2 DEF signing, tables
  <2> QED BY <1>8, <2>1, <2>2 DEF HandleCrossSigningUpload, StartCrossSigning
<1>9. ASSUME NEW d \in Devices, DeleteDevice(d) PROVE Named
  <2>1. CASE devices[d] = "live" \/ identity[d] # None
    BY <1>2, <1>9, <2>1 DEF DeleteDevice
  <2>2. CASE devices[d] # "live" /\ identity[d] = None
    <3>1. /\ devices' = [devices EXCEPT ![d] = "deleted"] /\ UNCHANGED signing
          /\ identity' = [identity EXCEPT ![d] = None]
      BY <1>9 DEF DeleteDevice, Cleared
    <3>2. devices' = devices /\ identity' = identity
      BY <1>1, <2>2, <3>1 DEF TypeOK
    <3> QED BY <1>3, <3>1, <3>2 DEF signing
  <2> QED BY <2>1, <2>2
<1>10. ASSUME NEW d \in Devices, Login(d) PROVE Named
  <2>1. /\ devices[d] = "deleted" /\ devices' = [devices EXCEPT ![d] = "live"]
        /\ identity' = identity /\ cross' = cross
    BY <1>10 DEF Login, signing
  <2>2. identity[d] = None
    BY <2>1 DEF KeysInv, NoKeysOfDeleted
  <2>3. \A e \in Devices : e # d => devices'[e] = devices[e]
    BY <1>1, <2>1 DEF TypeOK
  <2> QED BY <2>1, <2>2, <2>3, SameAnswer DEF Named
<1> QED BY <1>4, <1>5, <1>6, <1>7, <1>8, <1>9, <1>10 DEF Next

\* queryDeviceKeys and getKeysChanges: whatever makes the answer to a key query
\* another one, keys/changes since any earlier position names the user.  A login
\* names nobody, and need not: a device comes back without the keys it had.
THEOREM EveryChangeIsNamed == Spec => ChangesAreNamed
<1>1. KeysInv /\ [Next]_vars => [Named]_vars
  BY NamedStep
<1> QED BY <1>1, KeysInvariant, PTL DEF Spec, ChangesAreNamed, Named

-----------------------------------------------------------------------------
(* DeviceLists *)

(* Calls *)

\* What the fields of a call are.
LEMMA ListingCall ==
  ASSUME ListsTypeOK, NEW h \in Tellers, calls[h].pc = "list"
  PROVE  /\ calls[h] \in Listings /\ ~IsIdle(h)
         /\ calls[h].ask \subseteq Rooms /\ calls[h].former \subseteq Users
         /\ calls[h].found \subseteq Users /\ calls[h].purpose \in Purposes
         /\ calls[h].together \subseteq Peers \X Rooms
<1>1. calls[h] \in Listings /\ ~IsIdle(h)
  BY DEF ListsTypeOK, Tellings, NoCall, IsIdle
<1> QED BY <1>1 DEF Listings

LEMMA TellingCall ==
  ASSUME ListsTypeOK, NEW h \in Tellers, calls[h].pc = "tell"
  PROVE  /\ calls[h] \in Tellings /\ ~IsIdle(h)
         /\ calls[h].todo \subseteq Peers /\ calls[h].purpose \in Purposes
         /\ calls[h].together \subseteq Peers \X Rooms
<1>1. calls[h] \in Tellings /\ ~IsIdle(h)
  BY DEF ListsTypeOK, Listings, NoCall, IsIdle
<1> QED BY <1>1 DEF Tellings

LEMMA IdleCall ==
  ASSUME ListsTypeOK, NEW h \in Tellers
  PROVE  /\ calls[h].pc \in {"idle", "list", "tell"}
         /\ IsIdle(h) <=> calls[h].pc = "idle"
BY DEF ListsTypeOK, Listings, Tellings, NoCall, IsIdle

\* Those who share a room with the owner are peers, in rooms.
LEMMA SharedArePeers ==
  ASSUME NEW m, NEW rs \in SUBSET Rooms
  PROVE  /\ Shared(m, rs) \subseteq Peers \X Rooms /\ Shared(m, rs) \subseteq Shared(m, Rooms)
         /\ \A s \in Shared(m, rs) : s[2] \in rs /\ s[2] \in encrypted
                                     /\ s[1] \in m[s[2]] /\ Owner \in m[s[2]]
<1>1. Shared(m, rs) \subseteq Peers \X Rooms /\ Shared(m, rs) \subseteq Shared(m, Rooms)
  BY DEF Shared
<1>2. ASSUME NEW s \in Shared(m, rs)
      PROVE  s[2] \in rs /\ s[2] \in encrypted /\ s[1] \in m[s[2]] /\ Owner \in m[s[2]]
  BY DEF Shared
<1> QED BY <1>1, <1>2

\* The untold that h would have reached are reached by it still.
StillReaches(h) ==
  \A s \in stayed : Reaches(h, s[1], s[2]) /\ s[1] \in (outdated \ missed)' =>
                       Reaches(h, s[1], s[2])'

\* A step of one call, in the rooms as they are: it has to keep what the
\* invariant says of that call.
LEMMA OneCall ==
  ASSUME ListsInv, ListsTypeOK', NEW h \in Tellers, \A g \in Tellers : g # h => calls'[g] = calls[g],
         members' = members, encrypted' = encrypted, stayed' = stayed,
         (outdated \ missed)' \subseteq outdated \ missed,
         ~IsIdle(h)' => calls'[h].together \subseteq Shared(members, Rooms),
         calls'[h].pc = "list" =>
           \A s \in calls'[h].together : s[2] \in calls'[h].ask \/ s[1] \in calls'[h].found,
         calls'[h].pc = "tell" /\ calls'[h].purpose = "left" =>
           \A s \in calls'[h].together : s[1] \notin calls'[h].todo,
         StillReaches(h)
  PROVE  ListsInv'
<1>1. LeftOnlyIfApart'
  <2> SUFFICES ASSUME NEW g \in Tellers, calls'[g].pc = "tell", calls'[g].purpose = "left",
                      NEW s \in calls'[g].together
               PROVE  s[1] \notin calls'[g].todo
    BY DEF LeftOnlyIfApart
  <2> QED BY DEF ListsInv, LeftOnlyIfApart
<1>2. StillTogether'
  <2>1. Shared(members, Rooms)' = Shared(members, Rooms)
    BY DEF Shared
  <2>2. ASSUME NEW g \in Tellers, ~IsIdle(g)'
        PROVE  calls'[g].together \subseteq Shared(members, Rooms)
    BY <2>2 DEF ListsInv, StillTogether, IsIdle
  <2> QED BY <2>1, <2>2 DEF ListsInv, StillTogether
<1>3. FoundOrToAsk'
  <2> SUFFICES ASSUME NEW g \in Tellers, calls'[g].pc = "list", NEW s \in calls'[g].together
               PROVE  s[2] \in calls'[g].ask \/ s[1] \in calls'[g].found
    BY DEF FoundOrToAsk
  <2> QED BY DEF ListsInv, FoundOrToAsk
<1>4. UntoldAreReached'
  <2> SUFFICES ASSUME NEW s \in stayed, s[1] \in (outdated \ missed)'
               PROVE  \E g \in Tellers : Reaches(g, s[1], s[2])'
    BY DEF UntoldAreReached
  <2>1. PICK g \in Tellers : Reaches(g, s[1], s[2])
    BY DEF ListsInv, UntoldAreReached
  <2>2. CASE g = h
    BY <2>1, <2>2 DEF StillReaches
  <2>3. CASE g # h
    BY <2>1, <2>3 DEF Reaches, IsIdle, Asking, Telling
  <2> QED BY <2>2, <2>3
<1> QED BY <1>1, <1>2, <1>3, <1>4 DEF ListsInv

-----------------------------------------------------------------------------
(* The steps *)

LEMMA InitLists == ListsInit => ListsInv
<1> SUFFICES ASSUME ListsInit PROVE ListsInv
  OBVIOUS
<1>1. ListsTypeOK
  <2>1. owed \in [Rooms -> Seq([bucket : {"join", "leave"}, peers : SUBSET Users])]
    BY DEF ListsInit
  <2> QED BY <2>1, BoundsAreNat DEF ListsInit, ListsTypeOK
<1>2. \A h \in Tellers : IsIdle(h) /\ calls[h].pc = "idle"
  BY DEF ListsInit, IsIdle, NoCall
<1> QED BY <1>1, <1>2 DEF ListsInit, ListsInv, LeftOnlyIfApart, StillTogether, FoundOrToAsk,
                          UntoldAreReached

\* A call that begins: what it lists, and that all it shares is to be asked.
LEMMA Begins ==
  ASSUME ListsTypeOK, NEW purpose \in Purposes, NEW rs \in SUBSET Rooms, NEW former \in SUBSET Users
  PROVE  LET call == Listing(purpose, rs, former)
         IN  /\ call \in Listings /\ call # NoCall /\ call.pc = "list" /\ call.purpose = purpose
             /\ call.together = Shared(members, rs) /\ call.ask = rs
BY SharedArePeers DEF Listing, Listings, NoCall

\* A change is told of to all who share a room that is recorded.
LEMMA ChangeStep ==
  ASSUME ListsInv, NEW h \in Tellers, Change(h)
  PROVE  ListsInv'
<1> DEFINE call == Listing("changed", joined, {})
<1>1. /\ calls' = [calls EXCEPT ![h] = call] /\ outdated' = Peers /\ missed' = {}
      /\ stayed' = Shared(members, joined) /\ UNCHANGED <<rooms, record, moves, failures>>
      /\ changes < MaxChanges /\ changes' = changes + 1
  BY DEF Change
<1>2. ListsTypeOK
  BY DEF ListsInv
<1>3. /\ call \in Listings /\ call # NoCall /\ call.pc = "list" /\ call.purpose = "changed"
      /\ call.together = Shared(members, joined) /\ call.ask = joined
  BY <1>2, Begins DEF ListsTypeOK, Purposes
<1> HIDE DEF call
<1>4. /\ calls' \in [Tellers -> {NoCall} \cup Listings \cup Tellings]
      /\ calls'[h] = call /\ \A g \in Tellers : g # h => calls'[g] = calls[g]
  BY <1>1, <1>2, <1>3 DEF ListsTypeOK
<1>5. /\ Shared(members, joined) \subseteq Shared(members, Rooms)
      /\ Shared(members, joined) \subseteq Peers \X Rooms
      /\ \A s \in Shared(members, joined) : s[2] \in joined
  BY <1>2, SharedArePeers DEF ListsTypeOK
<1>6. Shared(members, Rooms)' = Shared(members, Rooms)
  BY <1>1 DEF Shared, rooms
<1>7. ListsTypeOK'
  <2>1. changes' \in 0..MaxChanges
    BY <1>1, <1>2, BoundsAreNat DEF ListsTypeOK
  <2>2. stayed' \subseteq Peers \X Rooms /\ outdated' \subseteq Peers /\ missed' \subseteq Peers
    BY <1>1, <1>5
  <2> QED BY <1>1, <1>2, <1>4, <2>1, <2>2 DEF ListsTypeOK, rooms, record
<1>8. LeftOnlyIfApart'
  BY <1>3, <1>4 DEF ListsInv, LeftOnlyIfApart
<1>9. StillTogether'
  BY <1>1, <1>3, <1>4, <1>5, <1>6 DEF ListsInv, StillTogether, IsIdle
<1>10. FoundOrToAsk'
  BY <1>3, <1>4, <1>5 DEF ListsInv, FoundOrToAsk
<1>11. UntoldAreReached'
  BY <1>1, <1>3, <1>4, <1>5 DEF UntoldAreReached, Reaches, Asking, IsIdle
<1> QED BY <1>7, <1>8, <1>9, <1>10, <1>11 DEF ListsInv

\* A departure is delivered: the room is no longer recorded, and a call begins.
LEMMA DeliverStep ==
  ASSUME ListsInv, NEW h \in Tellers, NEW r \in Rooms, DeliverMembership(h, r)
  PROVE  ListsInv'
<1> DEFINE delta == Head(owed[r])
           after == IF delta.bucket = "join" THEN joined \cup {r} ELSE joined \ {r}
           call == Listing("left", after, delta.peers)
<1>1. /\ IsIdle(h) /\ owed[r] # <<>> /\ owed' = [owed EXCEPT ![r] = Tail(@)] /\ joined' = after
      /\ calls' = IF delta.peers = {} THEN calls ELSE [calls EXCEPT ![h] = call]
      /\ UNCHANGED <<rooms, ledger, counts>>
  BY DEF DeliverMembership
<1>2. ListsTypeOK
  BY DEF ListsInv
<1>3. /\ delta \in [bucket : {"join", "leave"}, peers : SUBSET Users]
      /\ Tail(owed[r]) \in Seq([bucket : {"join", "leave"}, peers : SUBSET Users])
  BY <1>1, <1>2, HeadTailProperties DEF ListsTypeOK
<1>4. delta.peers \in SUBSET Users /\ after \in SUBSET Rooms
  BY <1>2, <1>3 DEF ListsTypeOK
<1>5. /\ call \in Listings /\ call # NoCall /\ call.pc = "list" /\ call.purpose = "left"
      /\ call.together = Shared(members, after) /\ call.ask = after
  BY <1>2, <1>4, Begins DEF Purposes
<1> HIDE DEF call
<1>6. /\ calls' \in [Tellers -> {NoCall} \cup Listings \cup Tellings]
      /\ \A g \in Tellers : g # h => calls'[g] = calls[g]
      /\ calls'[h] = call \/ calls'[h] = calls[h]
  BY <1>1, <1>2, <1>5 DEF ListsTypeOK
<1>7. /\ Shared(members, after) \subseteq Shared(members, Rooms)
      /\ \A s \in Shared(members, after) : s[2] \in after
  BY <1>4, SharedArePeers
<1>8. owed' \in [Rooms -> Seq([bucket : {"join", "leave"}, peers : SUBSET Users])]
  BY <1>1, <1>2, <1>3 DEF ListsTypeOK
<1> HIDE DEF after, delta
<1>9. ListsTypeOK'
  BY <1>1, <1>2, <1>4, <1>6, <1>8 DEF ListsTypeOK, rooms, ledger, counts
<1>10. ~IsIdle(h)' => calls'[h] = call
  BY <1>1, <1>6 DEF IsIdle
<1>11. calls'[h].pc \in {"list", "tell"} => calls'[h] = call
  BY <1>1, <1>6 DEF IsIdle, NoCall
<1>12. ~IsIdle(h)' => calls'[h].together \subseteq Shared(members, Rooms)
  BY <1>5, <1>7, <1>10
<1>13. calls'[h].pc = "list" =>
         \A s \in calls'[h].together : s[2] \in calls'[h].ask \/ s[1] \in calls'[h].found
  BY <1>5, <1>7, <1>11
<1>14. calls'[h].pc # "tell"
  BY <1>5, <1>11
<1>15. StillReaches(h)
  BY <1>1 DEF StillReaches, Reaches
<1> QED BY <1>1, <1>6, <1>9, <1>12, <1>13, <1>14, <1>15, OneCall DEF rooms, ledger

\* A room answers with all that share it: it is asked no more, and they are found.
LEMMA AskStep ==
  ASSUME ListsInv, NEW h \in Tellers, NEW r \in Rooms, AskRoom(h, r)
  PROVE  ListsInv'
<1> DEFINE c == calls[h]
           ask == c.ask \ {r}
           found == c.found \cup IF r \in encrypted THEN Answer(r) ELSE {}
           row == [c EXCEPT !.ask = ask, !.found = found]
<1>1. c.pc = "list" /\ r \in c.ask /\ UNCHANGED <<rooms, record, ledger, counts>>
  BY DEF AskRoom, Asking
<1>2. ListsTypeOK
  BY DEF ListsInv
<1>3. /\ c \in Listings /\ ~IsIdle(h) /\ c.ask \subseteq Rooms /\ c.found \subseteq Users
      /\ c.together \subseteq Peers \X Rooms
  BY <1>1, <1>2, ListingCall
<1>4. calls' = [calls EXCEPT ![h] = row]
  <2>1. calls' = [calls EXCEPT ![h].ask = @ \ {r},
                               ![h].found = @ \cup IF r \in encrypted THEN Answer(r) ELSE {}]
    BY DEF AskRoom
  <2>2. calls \in [Tellers -> {NoCall} \cup Listings \cup Tellings]
    BY <1>2 DEF ListsTypeOK
  <2> QED BY <2>1, <2>2, Zenon
<1>5. ask \in SUBSET Rooms /\ found \in SUBSET Users
  BY <1>2, <1>3 DEF ListsTypeOK, Answer
<1>6. \A s \in c.together : s[2] \in ask \/ s[1] \in found
  <2> SUFFICES ASSUME NEW s \in c.together, s[2] \notin ask PROVE s[1] \in found
    OBVIOUS
  <2>1. s[2] \in c.ask \/ s[1] \in c.found
    BY <1>1 DEF ListsInv, FoundOrToAsk
  <2>2. CASE s[2] = r
    <3>1. s \in Shared(members, Rooms)
      BY <1>3 DEF ListsInv, StillTogether
    <3>2. r \in encrypted /\ s[1] \in members[r] /\ Owner \in members[r]
      BY <2>2, <3>1, SharedArePeers
    <3> QED BY <3>2 DEF Answer
  <2> QED BY <2>1, <2>2
<1>7. \A s \in stayed : s[2] = r => s[1] \in found
  <2> SUFFICES ASSUME NEW s \in stayed, s[2] = r PROVE s[1] \in found
    OBVIOUS
  <2>1. s \in Shared(members, Rooms)
    BY DEF ListsInv, StillTogether
  <2>2. r \in encrypted /\ s[1] \in members[r] /\ Owner \in members[r]
    BY <2>1, SharedArePeers
  <2> QED BY <2>2 DEF Answer
<1>8. c.found \subseteq found
  OBVIOUS
<1> HIDE DEF found
<1>9. c.ask \subseteq ask \cup {r}
  OBVIOUS
<1> HIDE DEF ask
<1>10. /\ row \in Listings /\ row.pc = "list" /\ row.purpose = c.purpose /\ row.ask = ask
       /\ row.found = found /\ row.together = c.together
  BY <1>3, <1>5, Zenon DEF Listings
<1> HIDE DEF row
<1>11. /\ calls' \in [Tellers -> {NoCall} \cup Listings \cup Tellings]
       /\ calls'[h] = row /\ \A g \in Tellers : g # h => calls'[g] = calls[g]
  BY <1>2, <1>4, <1>10 DEF ListsTypeOK
<1>12. ListsTypeOK'
  BY <1>1, <1>2, <1>11 DEF ListsTypeOK, rooms, record, ledger, counts
<1>13. StillReaches(h)
  <2> SUFFICES ASSUME NEW s \in stayed, Reaches(h, s[1], s[2]) PROVE Reaches(h, s[1], s[2])'
    BY DEF StillReaches
  <2>1. /\ ~IsIdle(h)' /\ calls'[h].pc = "list" /\ calls'[h].purpose = "changed"
    BY <1>1, <1>10, <1>11, IdleCall, <1>12 DEF Reaches, IsIdle, NoCall
  <2>2. s[2] \in c.ask \/ s[1] \in c.found
    BY <1>1 DEF Reaches, Asking, Telling
  <2>3. s[2] \in ask \/ s[1] \in found
    BY <1>7, <1>8, <1>9, <2>2
  <2> QED BY <1>10, <1>11, <2>1, <2>3 DEF Reaches, Asking
<1>14. calls'[h].together \subseteq Shared(members, Rooms)
  BY <1>3, <1>10, <1>11 DEF ListsInv, StillTogether
<1> QED BY <1>1, <1>6, <1>10, <1>11, <1>12, <1>13, <1>14, OneCall DEF rooms, ledger

\* A failure that reaches the peers S keeps those it should have told.
LEMMA MissIsSafe ==
  ASSUME ListsTypeOK, NEW h \in Tellers, NEW S, Miss(h, S)
  PROVE  /\ failures' \in 0..MaxFailures /\ missed' \subseteq Peers /\ missed \subseteq missed'
         /\ calls[h].purpose = "changed" => Peers \cap S \subseteq missed'
BY BoundsAreNat DEF ListsTypeOK, Miss

\* A room is passed over: the peers in it are missed, and no longer counted
\* among those together with the owner.
LEMMA SkipStep ==
  ASSUME ListsInv, NEW h \in Tellers, NEW r \in Rooms, SkipRoom(h, r)
  PROVE  ListsInv'
<1> DEFINE c == calls[h]
           ask == c.ask \ {r}
           together == c.together \ (Peers \X {r})
           row == [c EXCEPT !.ask = ask, !.together = together]
<1>1. /\ c.pc = "list" /\ r \in c.ask /\ Miss(h, members[r])
      /\ UNCHANGED <<rooms, record, outdated, stayed, changes, moves>>
  BY DEF SkipRoom, Asking
<1>2. ListsTypeOK
  BY DEF ListsInv
<1>3. /\ c \in Listings /\ ~IsIdle(h) /\ c.ask \subseteq Rooms
      /\ c.together \subseteq Peers \X Rooms
  BY <1>1, <1>2, ListingCall
<1>4. calls' = [calls EXCEPT ![h] = row]
  <2>1. calls' = [calls EXCEPT ![h].ask = @ \ {r}, ![h].together = @ \ (Peers \X {r})]
    BY DEF SkipRoom
  <2>2. calls \in [Tellers -> {NoCall} \cup Listings \cup Tellings]
    BY <1>2 DEF ListsTypeOK
  <2> QED BY <2>1, <2>2, Zenon
<1>5. ask \in SUBSET Rooms /\ together \in SUBSET (Peers \X Rooms) /\ together \subseteq c.together
  BY <1>3
<1>6. \A s \in together : s[2] \in ask \/ s[1] \in c.found
  <2> SUFFICES ASSUME NEW s \in together PROVE s[2] \in ask \/ s[1] \in c.found
    OBVIOUS
  <2>1. s[2] # r
    BY <1>3
  <2> QED BY <1>1, <2>1 DEF ListsInv, FoundOrToAsk
<1>7. /\ failures' \in 0..MaxFailures /\ missed' \subseteq Peers /\ missed \subseteq missed'
      /\ c.purpose = "changed" => Peers \cap members[r] \subseteq missed'
  BY <1>1, <1>2, MissIsSafe
<1>8. \A s \in stayed : s[2] = r => s[1] \in Peers \cap members[r]
  BY <1>2, SharedArePeers DEF ListsTypeOK, ListsInv, StillTogether
<1>9. c.ask \subseteq ask \cup {r}
  OBVIOUS
<1> HIDE DEF ask, together
<1>10. /\ row \in Listings /\ row.pc = "list" /\ row.purpose = c.purpose /\ row.ask = ask
       /\ row.found = c.found /\ row.together = together
  BY <1>1, <1>3, <1>5, Zenon DEF Listings
<1> HIDE DEF row
<1>11. /\ calls' \in [Tellers -> {NoCall} \cup Listings \cup Tellings]
       /\ calls'[h] = row /\ \A g \in Tellers : g # h => calls'[g] = calls[g]
  BY <1>2, <1>4, <1>10 DEF ListsTypeOK
<1>12. ListsTypeOK'
  BY <1>1, <1>2, <1>7, <1>11 DEF ListsTypeOK, rooms, record
<1>13. StillReaches(h)
  <2> SUFFICES ASSUME NEW s \in stayed, Reaches(h, s[1], s[2]), s[1] \notin missed'
               PROVE  Reaches(h, s[1], s[2])'
    BY DEF StillReaches
  <2>1. ~IsIdle(h)' /\ calls'[h].pc = "list" /\ calls'[h].purpose = "changed"
    BY <1>1, <1>10, <1>11 DEF Reaches, IsIdle, NoCall
  <2>2. s[2] \in c.ask \/ s[1] \in c.found
    BY <1>1 DEF Reaches, Asking, Telling
  <2>3. s[2] # r
    BY <1>7, <1>8 DEF Reaches
  <2> QED BY <1>9, <1>10, <1>11, <2>1, <2>2, <2>3 DEF Reaches, Asking
<1>14. calls'[h].together \subseteq Shared(members, Rooms)
  BY <1>3, <1>5, <1>10, <1>11 DEF ListsInv, StillTogether
<1> QED BY <1>1, <1>6, <1>7, <1>10, <1>11, <1>12, <1>13, <1>14, OneCall DEF rooms

\* The listing ends: of a change, those found are told, of a departure the
\* others, and all that stayed together with the owner were found.
LEMMA StartTellingStep ==
  ASSUME ListsInv, NEW h \in Tellers, StartTelling(h)
  PROVE  ListsInv'
<1> DEFINE c == calls[h]
           row == [pc |-> "tell", purpose |-> c.purpose, together |-> c.together,
                   todo |-> Targets(c)]
<1>1. /\ c.pc = "list" /\ c.ask = {} /\ calls' = [calls EXCEPT ![h] = row]
      /\ UNCHANGED <<rooms, record, ledger, counts>>
  BY DEF StartTelling
<1>2. ListsTypeOK
  BY DEF ListsInv
<1>3. /\ c \in Listings /\ ~IsIdle(h) /\ c.found \subseteq Users /\ c.former \subseteq Users
      /\ c.purpose \in Purposes /\ c.together \subseteq Peers \X Rooms
  BY <1>1, <1>2, ListingCall
<1>4. /\ Targets(c) \in SUBSET Peers
      /\ c.purpose = "changed" => Targets(c) = c.found \ {Owner}
      /\ c.purpose = "left" => Targets(c) \cap c.found = {}
  BY <1>3 DEF Targets, Users, Purposes
<1>5. /\ row \in Tellings /\ row # NoCall /\ row.pc = "tell" /\ row.purpose = c.purpose
      /\ row.together = c.together /\ row.todo = Targets(c)
  BY <1>3, <1>4 DEF Tellings, NoCall
<1> HIDE DEF row
<1>6. /\ calls' \in [Tellers -> {NoCall} \cup Listings \cup Tellings]
      /\ calls'[h] = row /\ \A g \in Tellers : g # h => calls'[g] = calls[g]
  BY <1>1, <1>2, <1>5 DEF ListsTypeOK
<1>7. ListsTypeOK'
  BY <1>1, <1>2, <1>6 DEF ListsTypeOK, rooms, record, ledger, counts
<1>8. \A s \in c.together : s[1] \in c.found
  BY <1>1 DEF ListsInv, FoundOrToAsk
<1>9. StillReaches(h)
  <2> SUFFICES ASSUME NEW s \in stayed, Reaches(h, s[1], s[2]) PROVE Reaches(h, s[1], s[2])'
    BY DEF StillReaches
  <2>1. s[1] \in c.found /\ c.purpose = "changed"
    BY <1>1 DEF Reaches, Asking, Telling
  <2>2. s[1] \in Peers
    BY <1>2 DEF ListsTypeOK
  <2>3. s[1] \in Targets(c)
    BY <1>4, <2>1, <2>2, OwnerIsNoPeer
  <2> QED BY <1>5, <1>6, <2>1, <2>3 DEF Reaches, Telling, IsIdle
<1>10. calls'[h].together \subseteq Shared(members, Rooms)
  BY <1>3, <1>5, <1>6 DEF ListsInv, StillTogether
<1> QED BY <1>1, <1>4, <1>5, <1>6, <1>7, <1>8, <1>9, <1>10, OneCall DEF rooms, ledger

\* One peer is told, or cannot be: the call goes on to the others.
LEMMA TellOne ==
  ASSUME ListsInv, NEW h \in Tellers, NEW p \in Peers, Telling(h, p),
         calls' = [calls EXCEPT ![h].todo = @ \ {p}],
         UNCHANGED <<rooms, record, stayed, changes, moves>>,
         failures' \in 0..MaxFailures, missed' \subseteq Peers, missed \subseteq missed',
         outdated' \subseteq outdated,
         calls[h].purpose = "changed" => p \notin (outdated \ missed)'
  PROVE  ListsInv'
<1> DEFINE c == calls[h]
           todo == c.todo \ {p}
           row == [c EXCEPT !.todo = todo]
<1>1. c.pc = "tell" /\ p \in c.todo /\ ListsTypeOK
  BY DEF ListsInv, Telling
<1>2. c \in Tellings /\ c.todo \subseteq Peers /\ ~IsIdle(h)
  BY <1>1, TellingCall
<1>3. calls' = [calls EXCEPT ![h] = row]
  BY <1>1 DEF ListsTypeOK
<1>4. todo \in SUBSET Peers /\ c.todo \subseteq todo \cup {p} /\ todo \subseteq c.todo
  BY <1>2
<1> HIDE DEF todo
<1>5. /\ row \in Tellings /\ row.pc = "tell" /\ row.purpose = c.purpose
      /\ row.together = c.together /\ row.todo = todo
  BY <1>1, <1>2, <1>4, Zenon DEF Tellings
<1> HIDE DEF row
<1>6. /\ calls' \in [Tellers -> {NoCall} \cup Listings \cup Tellings]
      /\ calls'[h] = row /\ \A g \in Tellers : g # h => calls'[g] = calls[g]
  BY <1>1, <1>3, <1>5 DEF ListsTypeOK
<1>7. ListsTypeOK'
  BY <1>1, <1>6 DEF ListsTypeOK, rooms, record
<1>8. StillReaches(h)
  <2> SUFFICES ASSUME NEW s \in stayed, Reaches(h, s[1], s[2]), s[1] \in (outdated \ missed)'
               PROVE  Reaches(h, s[1], s[2])'
    BY DEF StillReaches
  <2>1. s[1] \in c.todo /\ c.purpose = "changed"
    BY <1>1 DEF Reaches, Asking, Telling
  <2> QED BY <1>4, <1>5, <1>6, <2>1 DEF Reaches, Telling, IsIdle, NoCall
<1>9. calls'[h].together \subseteq Shared(members, Rooms)
  BY <1>2, <1>5, <1>6 DEF ListsInv, StillTogether
<1>10. c.purpose = "left" => \A s \in c.together : s[1] \notin todo
  BY <1>1, <1>4 DEF ListsInv, LeftOnlyIfApart
<1> QED BY <1>5, <1>6, <1>7, <1>8, <1>9, <1>10, OneCall DEF rooms

LEMMA TellStep ==
  ASSUME ListsInv, NEW h \in Tellers, NEW p \in Peers, TellPeer(h, p) \/ TellFails(h, p)
  PROVE  ListsInv'
<1>1. ListsTypeOK
  BY DEF ListsInv
<1>2. CASE TellPeer(h, p)
  BY <1>1, <1>2, TellOne DEF TellPeer, ListsTypeOK, counts
<1>3. CASE TellFails(h, p)
  <2>1. Miss(h, {p})
    BY <1>3 DEF TellFails
  <2> QED BY <1>1, <1>3, <2>1, MissIsSafe, TellOne DEF TellFails
<1> QED BY <1>2, <1>3

\* A call ends, having told all it had to, or having missed those it had not.
LEMMA EndStep ==
  ASSUME ListsInv, NEW h \in Tellers, EndTelling(h) \/ Abort(h)
  PROVE  ListsInv'
<1>1. ListsTypeOK
  BY DEF ListsInv
<1>2. /\ calls' = [calls EXCEPT ![h] = NoCall]
      /\ UNCHANGED <<rooms, record, outdated, stayed, changes, moves>>
  BY DEF EndTelling, Abort, ledger, counts
<1>3. /\ calls' \in [Tellers -> {NoCall} \cup Listings \cup Tellings]
      /\ calls'[h] = NoCall /\ \A g \in Tellers : g # h => calls'[g] = calls[g]
  BY <1>1, <1>2 DEF ListsTypeOK
<1>4. /\ failures' \in 0..MaxFailures /\ missed' \subseteq Peers /\ missed \subseteq missed'
      /\ \A s \in stayed : Reaches(h, s[1], s[2]) => s[1] \in missed'
  <2>0. \A s \in stayed : s[1] \in Peers
    BY <1>1 DEF ListsTypeOK
  <2>1. CASE EndTelling(h)
    BY <1>1, <2>1 DEF EndTelling, ListsTypeOK, ledger, counts, Reaches, Asking, Telling
  <2>2. CASE Abort(h)
    <3>1. Miss(h, IF calls[h].pc = "list" THEN Peers ELSE calls[h].todo)
      BY <2>2 DEF Abort
    <3> QED BY <1>1, <2>0, <3>1, MissIsSafe DEF Reaches, Asking, Telling
  <2> QED BY <2>1, <2>2
<1>5. ListsTypeOK'
  BY <1>1, <1>2, <1>3, <1>4 DEF ListsTypeOK, rooms, record
<1>6. StillReaches(h)
  BY <1>4 DEF StillReaches
<1>7. IsIdle(h)' /\ calls'[h].pc = "idle"
  BY <1>3 DEF IsIdle, NoCall
<1> QED BY <1>2, <1>3, <1>4, <1>5, <1>6, <1>7, OneCall DEF rooms

\* A membership changes: what is known of who stayed together shrinks with it.
LEMMA MoveStep ==
  ASSUME ListsInv, NEW u \in Users, NEW r \in Rooms, Join(u, r) \/ Leave(u, r)
  PROVE  ListsInv'
<1> DEFINE both == Shared(members', Rooms)
           Deltas == [bucket : {"join", "leave"}, peers : SUBSET Users]
<1>1. ListsTypeOK
  BY DEF ListsInv
<1>2. /\ stayed' = stayed \cap both
      /\ calls' = [h \in Tellers |-> IF IsIdle(h) THEN NoCall
                                      ELSE [calls[h] EXCEPT !.together = @ \cap both]]
      /\ UNCHANGED <<encrypted, joined, outdated, missed, changes, failures>>
      /\ moves' = moves + 1 /\ moves < MaxMoves
  BY DEF Join, Leave, StillShared
<1>3. /\ members' \in [Rooms -> SUBSET Users] /\ atLeave' \in [Rooms -> SUBSET Users]
      /\ owed' \in [Rooms -> Seq(Deltas)]
  <2>1. ASSUME NEW d \in Deltas, Owe(u, r, d) PROVE owed' \in [Rooms -> Seq(Deltas)]
    <3>1. owed \in [Rooms -> Seq(Deltas)]
      BY <1>1 DEF ListsTypeOK
    <3> HIDE DEF Deltas
    <3>2. Append(owed[r], d) \in Seq(Deltas)
      BY <3>1, AppendProperties
    <3> QED BY <2>1, <3>1, <3>2 DEF Owe
  <2>2. CASE Join(u, r)
    <3>1. [bucket |-> "join", peers |-> {}] \in Deltas
      OBVIOUS
    <3> QED BY <1>1, <2>1, <2>2, <3>1 DEF Join, ListsTypeOK
  <2>3. CASE Leave(u, r)
    <3> DEFINE rest == members[r] \ {u}
               peers == IF r \in encrypted THEN rest ELSE {}
    <3>1. rest \in SUBSET Users /\ peers \in SUBSET Users
      BY <1>1 DEF ListsTypeOK
    <3>2. /\ members' = [members EXCEPT ![r] = rest]
          /\ atLeave' = IF u = Owner THEN [atLeave EXCEPT ![r] = rest] ELSE atLeave
          /\ Owe(u, r, [bucket |-> "leave", peers |-> peers])
      BY <2>3 DEF Leave
    <3> HIDE DEF peers, rest
    <3>3. [bucket |-> "leave", peers |-> peers] \in Deltas
      BY <3>1
    <3> QED BY <1>1, <2>1, <3>1, <3>2, <3>3 DEF ListsTypeOK
  <2> QED BY <2>2, <2>3
<1>4. Shared(members, Rooms)' = both
  BY <1>2 DEF Shared
<1> HIDE DEF both, Deltas
<1>5. ASSUME NEW h \in Tellers
      PROVE  /\ calls'[h] \in {NoCall} \cup Listings \cup Tellings
             /\ IsIdle(h)' <=> IsIdle(h)
             /\ calls'[h].pc = calls[h].pc
             /\ ~IsIdle(h) => /\ calls'[h].purpose = calls[h].purpose
                              /\ calls'[h].together = calls[h].together \cap both
             /\ calls[h].pc = "list" => /\ calls'[h].ask = calls[h].ask
                                        /\ calls'[h].found = calls[h].found
             /\ calls[h].pc = "tell" => calls'[h].todo = calls[h].todo
  <2> DEFINE c == calls[h]
             together == c.together \cap both
             row == [c EXCEPT !.together = together]
  <2>1. CASE IsIdle(h)
    <3>1. calls'[h] = NoCall /\ calls[h] = NoCall
      BY <1>2, <2>1 DEF IsIdle
    <3> QED BY <3>1 DEF IsIdle, NoCall
  <2>2. CASE c.pc = "list"
    <3>1. c \in Listings /\ ~IsIdle(h) /\ together \in SUBSET (Peers \X Rooms)
      BY <1>1, <2>2, ListingCall
    <3>2. calls'[h] = row
      BY <1>2, <3>1
    <3> HIDE DEF together
    <3>3. /\ row \in Listings /\ row.pc = "list" /\ row.purpose = c.purpose /\ row.ask = c.ask
          /\ row.found = c.found /\ row.together = together
      BY <2>2, <3>1, Zenon DEF Listings
    <3> HIDE DEF row
    <3> QED BY <2>2, <3>1, <3>2, <3>3 DEF IsIdle, NoCall, together
  <2>3. CASE c.pc = "tell"
    <3>1. c \in Tellings /\ ~IsIdle(h) /\ together \in SUBSET (Peers \X Rooms)
      BY <1>1, <2>3, TellingCall
    <3>2. calls'[h] = row
      BY <1>2, <3>1
    <3> HIDE DEF together
    <3>3. /\ row \in Tellings /\ row.pc = "tell" /\ row.purpose = c.purpose
          /\ row.together = together /\ row.todo = c.todo
      BY <2>3, <3>1, Zenon DEF Tellings
    <3> HIDE DEF row
    <3> QED BY <2>3, <3>1, <3>2, <3>3 DEF IsIdle, NoCall, together
  <2> QED BY <1>1, <2>1, <2>2, <2>3, IdleCall
<1>6. ListsTypeOK'
  <2>1. calls' = [h \in Tellers |-> calls'[h]]
    BY <1>2
  <2>2. calls' \in [Tellers -> {NoCall} \cup Listings \cup Tellings]
    BY <1>5, <2>1
  <2>3. moves' \in 0..MaxMoves /\ stayed' \subseteq Peers \X Rooms
    BY <1>1, <1>2, BoundsAreNat DEF ListsTypeOK
  <2> QED BY <1>1, <1>2, <1>3, <2>2, <2>3 DEF ListsTypeOK, Deltas
<1>7. LeftOnlyIfApart'
  <2> SUFFICES ASSUME NEW h \in Tellers, calls'[h].pc = "tell", calls'[h].purpose = "left",
                      NEW s \in calls'[h].together
               PROVE  s[1] \notin calls'[h].todo
    BY DEF LeftOnlyIfApart
  <2>1. ~IsIdle(h) /\ calls[h].pc = "tell"
    BY <1>1, <1>5, TellingCall
  <2> QED BY <1>5, <2>1 DEF ListsInv, LeftOnlyIfApart
<1>8. StillTogether'
  BY <1>2, <1>4, <1>5 DEF StillTogether
<1>9. FoundOrToAsk'
  <2> SUFFICES ASSUME NEW h \in Tellers, calls'[h].pc = "list", NEW s \in calls'[h].together
               PROVE  s[2] \in calls'[h].ask \/ s[1] \in calls'[h].found
    BY DEF FoundOrToAsk
  <2>1. ~IsIdle(h) /\ calls[h].pc = "list"
    BY <1>1, <1>5, ListingCall
  <2> QED BY <1>5, <2>1 DEF ListsInv, FoundOrToAsk
<1>10. UntoldAreReached'
  <2> SUFFICES ASSUME NEW s \in stayed', s[1] \in outdated \ missed
               PROVE  \E h \in Tellers : Reaches(h, s[1], s[2])'
    BY <1>2 DEF UntoldAreReached
  <2>1. PICK h \in Tellers : Reaches(h, s[1], s[2])
    BY <1>2 DEF ListsInv, UntoldAreReached
  <2>2. Reaches(h, s[1], s[2])'
    BY <1>5, <2>1 DEF Reaches, Asking, Telling
  <2> QED BY <2>2
<1> QED BY <1>6, <1>7, <1>8, <1>9, <1>10 DEF ListsInv

\* A room becomes encrypted: more is shared.
LEMMA EncryptStep ==
  ASSUME ListsInv, NEW r \in Rooms, Encrypt(r)
  PROVE  ListsInv'
<1>1. /\ encrypted' = encrypted \cup {r}
      /\ UNCHANGED <<members, atLeave, record, calls, ledger, counts>>
  BY DEF Encrypt
<1>2. Shared(members, Rooms) \subseteq Shared(members, Rooms)'
  BY <1>1 DEF Shared
<1>3. ListsTypeOK'
  BY <1>1 DEF ListsInv, ListsTypeOK, record, ledger, counts
<1>4. StillTogether'
  BY <1>1, <1>2 DEF ListsInv, StillTogether, IsIdle, ledger
<1>5. LeftOnlyIfApart' /\ FoundOrToAsk'
  BY <1>1 DEF ListsInv, LeftOnlyIfApart, FoundOrToAsk
<1>6. UntoldAreReached'
  BY <1>1 DEF ListsInv, UntoldAreReached, Reaches, IsIdle, Asking, Telling, ledger
<1> QED BY <1>3, <1>4, <1>5, <1>6 DEF ListsInv

LEMMA ListsStutter == ListsInv /\ UNCHANGED listVars => ListsInv'
<1> SUFFICES ASSUME ListsInv, UNCHANGED listVars PROVE ListsInv'
  OBVIOUS
<1>1. ListsTypeOK'
  BY DEF ListsInv, ListsTypeOK, listVars, rooms, record, ledger, counts
<1>2. LeftOnlyIfApart' /\ FoundOrToAsk'
  BY DEF ListsInv, LeftOnlyIfApart, FoundOrToAsk, listVars
<1>3. StillTogether'
  BY DEF ListsInv, StillTogether, Shared, IsIdle, listVars, rooms, ledger
<1>4. UntoldAreReached'
  BY DEF ListsInv, UntoldAreReached, Reaches, IsIdle, Asking, Telling, listVars, ledger
<1> QED BY <1>1, <1>2, <1>3, <1>4 DEF ListsInv

LEMMA ListsStep == ListsInv /\ [ListsNext]_listVars => ListsInv'
<1> SUFFICES ASSUME ListsInv, [ListsNext]_listVars PROVE ListsInv'
  OBVIOUS
<1>1. CASE UNCHANGED listVars
  BY <1>1, ListsStutter
<1>2. ASSUME NEW h \in Tellers, Change(h) PROVE ListsInv'
  BY <1>2, ChangeStep
<1>3. ASSUME NEW h \in Tellers, NEW r \in Rooms,
             AskRoom(h, r) \/ SkipRoom(h, r) \/ DeliverMembership(h, r)
      PROVE  ListsInv'
  BY <1>3, AskStep, SkipStep, DeliverStep
<1>4. ASSUME NEW h \in Tellers, StartTelling(h) PROVE ListsInv'
  BY <1>4, StartTellingStep
<1>5. ASSUME NEW h \in Tellers, NEW p \in Peers, TellPeer(h, p) \/ TellFails(h, p) PROVE ListsInv'
  BY <1>5, TellStep
<1>6. ASSUME NEW h \in Tellers, EndTelling(h) \/ Abort(h) PROVE ListsInv'
  BY <1>6, EndStep
<1>7. ASSUME NEW r \in Rooms, NEW u \in Users, Join(u, r) \/ Leave(u, r) PROVE ListsInv'
  BY <1>7, MoveStep
<1>8. ASSUME NEW r \in Rooms, Encrypt(r) PROVE ListsInv'
  BY <1>8, EncryptStep
<1> QED BY <1>1, <1>2, <1>3, <1>4, <1>5, <1>6, <1>7, <1>8 DEF ListsNext

-----------------------------------------------------------------------------

\* notifyUsersSharingRooms and notifyUsersNoLongerSharingRooms: whatever
\* memberships, other changes and failures take place during its awaits, no
\* call tells of a departure to those who have stayed together with the owner,
\* and one under way reaches every untold peer that no failure has kept.
THEOREM ListsInvariant == ListsSpec => []ListsInv
BY InitLists, ListsStep, PTL DEF ListsSpec

\* Once no call runs, every peer that has shared an encrypted room since the
\* last change of the device list was told of it, unless a call failed: for
\* any number of peers, rooms and calls that overlap.
THEOREM ChangesReachPeers == ListsSpec => []PeersAreTold
<1>1. ListsInv => PeersAreTold
  BY DEF ListsInv, UntoldAreReached, Reaches, PeersAreTold
<1> QED BY <1>1, ListsInvariant, PTL
=============================================================================
