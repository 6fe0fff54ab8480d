----------------------------- MODULE SeedProofs -----------------------------
(***************************************************************************)
(* Proofs about the resurrection seed.  What is on disk and what runs      *)
(* depends on what every earlier step left in memory: the invariant says,  *)
(* for each step, which pointer, bytes and files the process holds there.  *)
(***************************************************************************)
EXTENDS Seed, TLAPS

Verifying == {"write", "check", "unpack", "exec", "running"}
Unpacking == {"unpack", "exec", "running"}

\* The steps after a successful verification hold the pinned bytes.
HoldsPinned ==
  /\ pc \in {"gateways", "build", "verify"} \cup Verifying =>
       pointer \in Pointer /\ pointer.blob \in pinned
  /\ pc = "verify" => version.hash = pointer.blob
  /\ pc \in Verifying => tarball = pointer.blob
  /\ pc \in {"check", "unpack"} => archive[sandbox] = pointer.blob
  /\ pc \in Unpacking => pointer.blob \notin Rejected

\* What is written and what is still to write make up the whole archive.
WritesAll ==
  /\ pc = "unpack" =>
       /\ todo \subseteq Files[pointer.blob]
       /\ \A name \in Files[pointer.blob] \ todo : disk[sandbox][name] = pointer.blob
  /\ pc \in {"exec", "running"} =>
       \A name \in Files[pointer.blob] : disk[sandbox][name] = pointer.blob

\* A directory of the seed's own holds nothing else.
NothingElse ==
  /\ pc \in {"start", "gateways", "build", "verify", "write", "check"} /\ sandbox = "fresh" =>
       \A name \in Names : disk["fresh"][name] = Missing
  /\ pc \in Unpacking /\ sandbox = "fresh" =>
       \A name \in Names \ Files[pointer.blob] : disk["fresh"][name] = Missing

SeedTypes ==
  /\ published \in Pointer \cup {NoPointer} /\ pinned \subseteq Pinnable
  /\ sandbox \in Sandboxes
  /\ disk \in [Sandboxes -> [Names -> Blobs \cup {Missing}]]
  /\ archive \in [Sandboxes -> Blobs \cup {NoBlob}]
  /\ tarball \in Blobs \cup {NoBlob}
  /\ published # NoPointer => published.blob \in pinned

SeedInv == SeedTypes /\ HoldsPinned /\ WritesAll /\ NothingElse /\ DiskHoldsPinned

LEMMA SeedInitially == Init => SeedInv
BY BlobAssumption DEF Init, SeedInv, SeedTypes, HoldsPinned, WritesAll, NothingElse,
   DiskHoldsPinned, Verifying, Unpacking, Sandboxes, Empty

\* The process ends, by itself or not, with the disk as it is.
LEMMA EndedKeeps ==
  ASSUME SeedInv, NEW outcome \in {"off", "failed"}, Ended(outcome),
         UNCHANGED <<published, pinned, disk>>,
         archive' \in [Sandboxes -> Blobs \cup {NoBlob}]
  PROVE  SeedInv'
BY DEF SeedInv, SeedTypes, HoldsPinned, WritesAll, NothingElse, DiskHoldsPinned,
       Verifying, Unpacking, Sandboxes, Ended

\* Steps before anything is written: the disk is as it was.
LEMMA FetchSteps ==
  ASSUME SeedInv,
         \/ FetchPointer \/ GatewayFails \/ BuildVersion \/ Verify
         \/ \E blob \in Blobs : GatewayAnswers(blob) \/ MirrorAnswers(blob)
  PROVE  SeedInv'
<1>. USE DEF SeedInv, SeedTypes, HoldsPinned, WritesAll, NothingElse, DiskHoldsPinned,
             Verifying, Unpacking
<1>1. CASE FetchPointer
  BY <1>1 DEF FetchPointer
<1>2. CASE GatewayFails
  BY <1>2 DEF GatewayFails
<1>3. ASSUME NEW blob \in Blobs, GatewayAnswers(blob) \/ MirrorAnswers(blob) PROVE SeedInv'
  BY <1>3 DEF GatewayAnswers, MirrorAnswers, Receive
<1>4. CASE BuildVersion
  BY <1>4 DEF BuildVersion
<1>5. CASE Verify
  BY <1>5 DEF Verify, Verified
<1>. QED
  BY <1>1, <1>2, <1>3, <1>4, <1>5

LEMMA StartStep ==
  ASSUME SeedInv, NEW dir \in Sandboxes, Start(dir) PROVE SeedInv'
<1>. USE DEF SeedInv
<1>1. SeedTypes' /\ DiskHoldsPinned'
  BY DEF Start, SeedTypes, DiskHoldsPinned, Empty, Sandboxes
<1>2. HoldsPinned' /\ WritesAll'
  BY DEF Start, HoldsPinned, WritesAll, Verifying, Unpacking
<1>3. NothingElse'
  BY DEF Start, NothingElse, Unpacking, SeedTypes, Empty, Sandboxes
<1>. QED
  BY <1>1, <1>2, <1>3

LEMMA PublishStep ==
  ASSUME SeedInv, NEW p \in Pointer \cup {NoPointer}, Publish(p) PROVE SeedInv'
<1>. USE DEF SeedInv, memory
<1>1. SeedTypes' /\ pinned \subseteq pinned'
  BY DEF Publish, SeedTypes, Pointer
<1>2. HoldsPinned' /\ DiskHoldsPinned'
  BY <1>1 DEF Publish, HoldsPinned, DiskHoldsPinned, Verifying, Unpacking
<1>3. WritesAll' /\ NothingElse'
  BY DEF Publish, WritesAll, NothingElse, Unpacking
<1>. QED
  BY <1>1, <1>2, <1>3

LEMMA UnpackStep ==
  ASSUME SeedInv, NEW name \in Names, Unpack(name) PROVE SeedInv'
<1>. USE DEF SeedInv
<1>. DEFINE b == pointer.blob
<1>1. /\ pc = "unpack" /\ pc' = pc /\ name \in todo /\ todo' = todo \ {name}
      /\ disk' = [disk EXCEPT ![sandbox][name] = b]
      /\ UNCHANGED <<published, pinned, pointer, tarball, version, sandbox, archive>>
  BY DEF Unpack, HoldsPinned
<1>2. b \in pinned \ Rejected /\ b \in Blobs /\ name \in Files[b] /\ Files[b] \subseteq Names
  BY <1>1, BlobAssumption DEF HoldsPinned, WritesAll, SeedTypes, Pointer, Verifying, Unpacking
<1>3. sandbox \in Sandboxes /\ disk \in [Sandboxes -> [Names -> Blobs \cup {Missing}]]
  BY DEF SeedTypes
<1>4. \A dir \in Sandboxes, n \in Names :
        disk'[dir][n] = IF dir = sandbox /\ n = name THEN b ELSE disk[dir][n]
  BY <1>1, <1>3
<1>5. SeedTypes' /\ HoldsPinned'
  <2>1. disk' \in [Sandboxes -> [Names -> Blobs \cup {Missing}]]
    BY <1>1, <1>2, <1>3
  <2>. QED
    BY <1>1, <2>1 DEF SeedTypes, HoldsPinned, Verifying, Unpacking
<1>6. WritesAll' /\ NothingElse' /\ DiskHoldsPinned'
  BY <1>1, <1>2, <1>3, <1>4 DEF WritesAll, NothingElse, DiskHoldsPinned, Unpacking
<1>. QED
  BY <1>5, <1>6

LEMMA DiskSteps ==
  ASSUME SeedInv,
         WriteArchive \/ CheckMembers \/ Unpacked \/ ExecEntrypoint
  PROVE  SeedInv'
<1>. USE DEF SeedInv, SeedTypes, HoldsPinned, WritesAll, NothingElse, DiskHoldsPinned,
             Verifying, Unpacking
<1>1. CASE WriteArchive
  BY <1>1, BlobAssumption DEF WriteArchive, Pointer
<1>2. CASE CheckMembers
  <2>1. Files[pointer.blob] \subseteq Names
    BY <1>2, BlobAssumption DEF CheckMembers, Pointer
  <2>. QED
    BY <1>2, <2>1 DEF CheckMembers, Acceptable
<1>3. CASE Unpacked
  BY <1>3 DEF Unpacked
<1>4. CASE ExecEntrypoint
  BY <1>4 DEF ExecEntrypoint
<1>. QED
  BY <1>1, <1>2, <1>3, <1>4

LEMMA SeedStep == SeedInv /\ [Next]_vars => SeedInv'
<1>. SUFFICES ASSUME SeedInv, [Next]_vars PROVE SeedInv'
  OBVIOUS
<1>1. CASE Exits \/ Fail \/ ExtractFails \/ Crash
  <2>1. archive' \in [Sandboxes -> Blobs \cup {NoBlob}]
    BY <1>1 DEF Exits, Fail, ExtractFails, Crash, SeedInv, SeedTypes
  <2>2. /\ UNCHANGED <<published, pinned, disk>>
        /\ \E outcome \in {"off", "failed"} : Ended(outcome)
    BY <1>1 DEF Exits, Fail, ExtractFails, Crash
  <2>. QED
    BY <2>1, <2>2, EndedKeeps
<1>2. CASE UNCHANGED vars
  BY <1>2 DEF vars, memory, SeedInv, SeedTypes, HoldsPinned, WritesAll, NothingElse,
              DiskHoldsPinned, Verifying, Unpacking
<1>. QED
  BY <1>1, <1>2, FetchSteps, StartStep, PublishStep, UnpackStep, DiskSteps DEF Next, Seed

LEMMA SeedInvariant == Spec => []SeedInv
BY SeedInitially, SeedStep, PTL DEF Spec

(* Whatever gateways answer, whenever the seed is killed and whatever a caller
   reuses: what lies in a directory was pinned, and its archive was accepted
   as a whole. *)
THEOREM DiskCorrect == Spec => []DiskHoldsPinned
BY SeedInvariant, PTL DEF SeedInv

(* Whatever is published between the steps: what runs is the release that the
   pointer of step 1 named, complete, and in a fresh directory nothing else. *)
THEOREM RunsCorrect == Spec => []RunsWhatWasPinned
<1>1. SeedInv => RunsWhatWasPinned
  BY DEF SeedInv, WritesAll, NothingElse, Unpacking, RunsWhatWasPinned
<1>. QED
  BY <1>1, SeedInvariant, PTL
=============================================================================
