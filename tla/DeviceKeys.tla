----------------------------- MODULE DeviceKeys -----------------------------
(***************************************************************************)
(* End-to-end keys of one user: the key tables of its UserDO, and the      *)
(* gateway's handler of a cross-signing upload.                            *)
(*                                                                         *)
(* Each method of the UserDO is one step up to the point where it starts   *)
(* telling other users (DeviceLists); it appends an entry to the user's    *)
(* stream when it changed something, and names the user there as changed   *)
(* when what others see of its keys is not the same any more, which the    *)
(* user's own clients learn from keys/changes.  What a request is made     *)
(* from is older: a signature is of a record its client read before, a   *)
(* cross-signing upload was examined in an earlier call of the gateway's   *)
(* handler, a key upload may be the retry of one that was committed.       *)
(*                                                                         *)
(* All keys are of one algorithm.  The content of a key record is the      *)
(* stream position at which it was uploaded, which also stands for the     *)
(* published_at of a one-time key.  The name of a device, which a query    *)
(* returns with its keys, is left out: no entry tells a new one.           *)
(***************************************************************************)
EXTENDS Naturals, Sequences

CONSTANTS
  Devices,    \* device ids of the user
  KeyIds,     \* ids of one-time keys
  Contents,   \* what a cross-signing key may be
  Signers,    \* clients that sign the user's keys
  Nonces,     \* of UIA challenges
  Handlers,   \* gateway handlers of cross-signing uploads
  None,       \* no row
  MaxPos      \* bound: entries of the user's stream

ASSUME NoneIsNothing == None \notin Contents \cup Nonces
ASSUME MaxPosIsNat == MaxPos \in Nat

VARIABLES
  devices,    \* the devices, live or deleted
  identity,   \* per device: its device_keys row, [content, signatures]
  unclaimed,  \* per device: when its one-time keys were published, 0 if not unclaimed
  fallback,   \* per device: its fallback key, "none", "unused" or "used"
  cross,      \* per usage: the content of the cross-signing key
  memory,     \* the last cross-signing upload made with UIA
  stream,     \* the user's stream: whether an entry names the user as changed
  uploads,    \* gateway: cross-signing uploads under way
  published, handed   \* history: how often a key was uploaded, given out

tables == <<devices, identity, unclaimed, fallback>>
signing == <<cross, memory>>
history == <<published, handed>>
vars == <<tables, signing, stream, uploads, history>>

pos == Len(stream)

Usages == {"master", "self_signing"}
Idle == [pc |-> "idle"]
NoKeys == [k \in KeyIds |-> 0]

Init ==
  /\ devices = [d \in Devices |-> "live"]
  /\ identity = [d \in Devices |-> None]
  /\ unclaimed = [d \in Devices |-> NoKeys]
  /\ fallback = [d \in Devices |-> "none"]
  /\ cross = [u \in Usages |-> None]
  /\ memory = None
  /\ stream = <<>>
  /\ uploads = [h \in Handlers |-> Idle]
  /\ published = [d \in Devices |-> NoKeys]
  /\ handed = [d \in Devices |-> NoKeys]

-----------------------------------------------------------------------------
(* The key tables *)

Extend(named) == pos < MaxPos /\ stream' = Append(stream, named)

\* Mutant: only the first upload of a device's keys is a change.
NamesOnce(d, withIdentity) == withIdentity /\ identity[d] = None

\* One-time and fallback keys alone are no change of the device list.
Names(d, withIdentity) == withIdentity

\* Every key of an upload is put as unclaimed, also one that was claimed.
UploadKeys(d, ks, withIdentity, withFallback) ==
  /\ devices[d] = "live"
  /\ ks # {} \/ withIdentity \/ withFallback
  /\ Extend(Names(d, withIdentity))
  /\ identity' = IF withIdentity
                 THEN [identity EXCEPT ![d] = [content |-> pos + 1, signatures |-> {}]]
                 ELSE identity
  /\ unclaimed' = [unclaimed EXCEPT ![d] = [k \in KeyIds |-> IF k \in ks THEN pos + 1 ELSE @[k]]]
  /\ fallback' = IF withFallback THEN [fallback EXCEPT ![d] = "unused"] ELSE fallback
  /\ published' = [published EXCEPT ![d] = [k \in KeyIds |-> @[k] + IF k \in ks THEN 1 ELSE 0]]
  /\ UNCHANGED <<devices, signing, uploads, handed>>

\* The unclaimed keys published first: those of one upload have no order.
Oldest(d) ==
  {k \in KeyIds : /\ unclaimed[d][k] # 0
                  /\ \A l \in KeyIds : unclaimed[d][l] # 0 =>
                                       unclaimed[d][k] <= unclaimed[d][l]}

GiveOut(d, k) == handed' = [handed EXCEPT ![d][k] = @ + 1]

\* Mutant: the key that is given out stays in the table.
ClaimKeeping(d) ==
  \E k \in Oldest(d) :
    /\ GiveOut(d, k)
    /\ Extend(FALSE)
    /\ UNCHANGED <<unclaimed, fallback>>

\* The oldest unclaimed key; when there is none the fallback key, which is kept.
Claim(d) ==
  \/ \E k \in Oldest(d) :
       /\ GiveOut(d, k)
       /\ unclaimed' = [unclaimed EXCEPT ![d][k] = 0]
       /\ Extend(FALSE)
       /\ UNCHANGED fallback
  \/ /\ unclaimed[d] = NoKeys /\ fallback[d] = "unused"
     /\ fallback' = [fallback EXCEPT ![d] = "used"]
     /\ Extend(FALSE)
     /\ UNCHANGED <<unclaimed, handed>>

ClaimKey(d) ==
  /\ Claim(d)
  /\ UNCHANGED <<devices, identity, signing, uploads, published>>

Cleared(d) ==
  /\ identity' = [identity EXCEPT ![d] = None]
  /\ unclaimed' = [unclaimed EXCEPT ![d] = NoKeys]
  /\ fallback' = [fallback EXCEPT ![d] = "none"]

\* A repeated deletion finds nothing to change.
DeleteDevice(d) ==
  /\ IF devices[d] = "live" \/ identity[d] # None THEN Extend(TRUE) ELSE UNCHANGED stream
  /\ devices' = [devices EXCEPT ![d] = "deleted"]
  /\ Cleared(d)
  /\ UNCHANGED <<signing, uploads, history>>

Login(d) ==
  /\ devices[d] = "deleted"
  /\ devices' = [devices EXCEPT ![d] = "live"]
  /\ UNCHANGED <<identity, unclaimed, fallback, signing, stream, uploads, history>>

\* The signed object must be the stored one, signatures aside.
Signable(d, content) == identity[d] # None /\ identity[d].content = content

\* A client, of this user or another, signs the record it has read earlier.
Sign(d, signer, content) ==
  /\ Signable(d, content)
  /\ <<signer, content>> \notin identity[d].signatures
  /\ identity' = [identity EXCEPT ![d].signatures = @ \cup {<<signer, content>>}]
  /\ Extend(TRUE)
  /\ UNCHANGED <<devices, unclaimed, fallback, signing, uploads, history>>

-----------------------------------------------------------------------------
(* Cross-signing keys: the gateway reads them, decides whether the request *)
(* needs interactive authentication, and uploads in a later call           *)

Requests == {r \in [Usages -> Contents \cup {None}] : \E u \in Usages : r[u] # None}

\* Mutant: only the master key is compared.
RequiresUiaForMaster(now, req) == now["master"] # None /\ req["master"] # now["master"]

RequiresUia(now, req) ==
  /\ now["master"] # None
  /\ \/ req["master"] # now["master"]
     \/ req["self_signing"] \notin {None, now["self_signing"]}

\* The replay check, of the gateway's handler and again of the transaction
Remembered(nonce) == nonce # None /\ memory # None /\ memory.nonce = nonce

StartCrossSigning(h, req, nonce) ==
  /\ uploads[h] = Idle
  /\ IF RequiresUia(cross, req) THEN nonce \in Nonces ELSE nonce = None
  /\ ~Remembered(nonce)
  /\ uploads' = [uploads EXCEPT ![h] = [pc |-> "upload", req |-> req, nonce |-> nonce, seen |-> cross]]
  /\ UNCHANGED <<tables, signing, stream, history>>

\* A nonce that committed in the meantime is answered from memory, with
\* success if the request is the same and else with a conflict.
Refused(req, nonce) == Remembered(nonce) \/ (cross["master"] = None /\ req["master"] = None)

\* uploadCrossSigningKeys
UploadCrossSigning(h) ==
  LET req   == uploads[h].req
      nonce == uploads[h].nonce
      next  == [u \in Usages |-> IF req[u] = None THEN cross[u] ELSE req[u]]
  IN  /\ uploads[h].pc = "upload"
      /\ IF Refused(req, nonce)
         THEN UNCHANGED <<signing, stream>>
         ELSE /\ cross' = next
              /\ memory' = IF nonce = None THEN memory ELSE [nonce |-> nonce, req |-> req]
              /\ IF next # cross THEN Extend(TRUE) ELSE UNCHANGED stream
      /\ uploads' = [uploads EXCEPT ![h] = Idle]
      /\ UNCHANGED <<tables, history>>

-----------------------------------------------------------------------------

(* What is asked *)

\* buildKeysQuerySnapshot
Snapshot(asked) ==
  [devices |-> [d \in {x \in asked : devices[x] = "live" /\ identity[x] # None} |-> identity[d]],
   cross |-> cross]

\* queryDeviceKeys, to the user itself: others do not get the user-signing key.
\* No device stands for all.
Query(asked) == Snapshot(IF asked = {} THEN Devices ELSE asked)

\* getKeysChanges: whether it names the user
ChangesBetween(from, to) == \E i \in (from + 1)..to : stream[i]

-----------------------------------------------------------------------------
HandleKeysUpload ==
  \E d \in Devices, ks \in SUBSET KeyIds, i, f \in BOOLEAN : UploadKeys(d, ks, i, f)

HandleKeysClaim == \E d \in Devices : ClaimKey(d)

HandleCrossSigningUpload(h) ==
  \/ \E req \in Requests, nonce \in Nonces \cup {None} : StartCrossSigning(h, req, nonce)
  \/ UploadCrossSigning(h)

HandleSignaturesUpload ==
  \E d \in Devices, s \in Signers, content \in 1..pos : Sign(d, s, content)

Next ==
  \/ HandleKeysUpload \/ HandleKeysClaim \/ HandleSignaturesUpload
  \/ \E h \in Handlers : HandleCrossSigningUpload(h)
  \/ \E d \in Devices : DeleteDevice(d) \/ Login(d)

Spec == Init /\ [][Next]_vars

-----------------------------------------------------------------------------
Records == [content : 1..pos, signatures : SUBSET (Signers \X (1..pos))]
Keys == [Usages -> Contents \cup {None}]
Examined == [pc : {"upload"}, req : Requests, nonce : Nonces \cup {None}, seen : Keys]

(* The tables have the shapes the code gives them.                         *)
TypeOK ==
  /\ devices \in [Devices -> {"live", "deleted"}]
  /\ identity \in [Devices -> {None} \cup Records]
  /\ unclaimed \in [Devices -> [KeyIds -> 0..pos]]
  /\ fallback \in [Devices -> {"none", "unused", "used"}]
  /\ cross \in Keys
  /\ memory \in {None} \cup [nonce : Nonces, req : Requests]
  /\ stream \in Seq(BOOLEAN) /\ pos <= MaxPos
  /\ uploads \in [Handlers -> {Idle} \cup Examined]
  /\ published \in [Devices -> [KeyIds -> Nat]] /\ handed \in [Devices -> [KeyIds -> Nat]]

\* A deleted device has no keys left to query or to claim, whatever uploads,
\* signatures, deletions and logins of it were interleaved.
NoKeysOfDeleted ==
  \A d \in Devices : devices[d] = "deleted" =>
     identity[d] = None /\ unclaimed[d] = NoKeys /\ fallback[d] = "none"

\* A one-time key is given out at most once for each time it was uploaded, and
\* one that is still unclaimed less often.
HandedOutOnce ==
  \A d \in Devices, k \in KeyIds :
     handed[d][k] + (IF unclaimed[d][k] # 0 THEN 1 ELSE 0) <= published[d][k]

\* A self-signing key is never stored without a master key.
HasMaster(keys) == keys["self_signing"] # None => keys["master"] # None
MasterFirst == HasMaster(cross)

\* What a request was examined against was such a store, and one that goes on
\* without interactive authentication needed none.
ExaminedWell ==
  \A h \in Handlers : uploads[h] # Idle =>
     /\ HasMaster(uploads[h].seen)
     /\ uploads[h].nonce = None => ~RequiresUia(uploads[h].seen, uploads[h].req)

\* A signature made on a record read earlier is never attached to another
\* record that was uploaded meanwhile.
SignaturesFit ==
  \A d \in Devices : identity[d] # None =>
     \A s \in identity[d].signatures : s[2] = identity[d].content

KeysInv == TypeOK /\ NoKeysOfDeleted /\ HandedOutOnce /\ MasterFirst /\ SignaturesFit
           /\ ExaminedWell

\* A cross-signing key that is still the one the gateway saw when it examined
\* a request is replaced only if the request authenticated interactively.
ReplacedWithAuth ==
  [][\A h \in Handlers, u \in Usages :
       /\ uploads[h] # Idle /\ uploads'[h] = Idle
       /\ uploads[h].seen[u] = cross[u] /\ cross[u] # None /\ cross'[u] # cross[u]
       => uploads[h].nonce # None]_vars

\* When the answer to a key query changes, by an upload, a deletion, a
\* signature or a cross-signing upload, keys/changes since any earlier
\* position names the user.
ChangesAreNamed ==
  [][\A asked \in SUBSET Devices : Query(asked)' # Query(asked) =>
        \A from \in 0..pos : ChangesBetween(from, Len(stream))']_vars

\* "/keys/claim must return a one-time key at most once"
\* (30-client-identity-and-sync.md:324).
KeyGivenOnce == \A d \in Devices, k \in KeyIds : handed[d][k] <= 1
=============================================================================
