-------------------------------- MODULE Seed --------------------------------
(***************************************************************************)
(* The resurrection seed (earn_or_halt/resurrection): read the release     *)
(* pointer, fetch its tarball from gateways that may answer anything,      *)
(* verify, unpack, run.  The seed may be killed at any step and started    *)
(* again, in a directory of its own (mkdtemp) or in one its caller keeps,  *)
(* while the pointer changes under it.  A blob stands for its bytes and    *)
(* for their SHA-256: two blobs never share a hash.                        *)
(***************************************************************************)
EXTENDS Naturals

CONSTANTS
  Blobs,       \* what a gateway may answer with
  Names,       \* paths inside an archive
  Entrypoint,  \* earn_or_halt/runtime.py
  Files,       \* the paths of the members of a blob
  Rejected,    \* blobs that are no archive or hold a member _check_member refuses
  Pinnable,    \* blobs whose hash a pointer may hold
  NGateways,   \* how many IPFS_GATEWAYS there are
  NoPointer, NoBlob, Missing

ASSUME BlobAssumption ==
  /\ Files \in [Blobs -> SUBSET Names] /\ Rejected \subseteq Blobs
  /\ Pinnable \subseteq Blobs /\ NoBlob \notin Blobs /\ Missing \notin Blobs
ASSUME GatewayAssumption == NGateways \in Nat

VARIABLES
  published,   \* the pointer file
  pinned,      \* history: the blobs any pointer ever named
  pc, pointer, gateway, tarball,
  version,     \* what build_version returned: the hash and whether it is signed
  sandbox,     \* dest_dir: the seed's own or the caller's
  todo,        \* members that extractall has not written yet
  disk,        \* for each directory, from which blob a path was written
  archive      \* the tarball written beside the directory

memory == <<pc, pointer, gateway, tarball, version, sandbox, todo>>
vars   == <<published, pinned, memory, disk, archive>>

Sandboxes == {"fresh", "given"}
Empty     == [name \in Names |-> Missing]
Pointer   == [blob : Pinnable, signed : BOOLEAN, mirror : BOOLEAN]
NoVersion == [hash |-> NoBlob, signed |-> FALSE]

Init ==
  /\ published = NoPointer /\ pinned = {}
  /\ pc = "off" /\ pointer = NoPointer /\ gateway = 1 /\ tarball = NoBlob
  /\ version = NoVersion /\ sandbox = "given" /\ todo = {}
  /\ disk = [dir \in Sandboxes |-> Empty]
  /\ archive = [dir \in Sandboxes |-> NoBlob]

(* The release builder replaces the pointer, or the file goes away. *)
Publish(p) ==
  /\ published' = p
  /\ pinned' = IF p = NoPointer THEN pinned ELSE pinned \cup {p.blob}
  /\ UNCHANGED <<memory, disk, archive>>

\* The process is gone, and its memory with it.
Ended(outcome) ==
  /\ pc' = outcome /\ pointer' = NoPointer /\ gateway' = 1 /\ tarball' = NoBlob
  /\ version' = NoVersion /\ sandbox' = "given" /\ todo' = {}

(* run: without a dest_dir a directory is made that nobody used before. *)
Start(dir) ==
  /\ pc \in {"off", "failed"}
  /\ pc' = "start" /\ sandbox' = dir
  /\ disk' = IF dir = "fresh" THEN [disk EXCEPT !["fresh"] = Empty] ELSE disk
  /\ archive' = IF dir = "fresh" THEN [archive EXCEPT !["fresh"] = NoBlob] ELSE archive
  /\ UNCHANGED <<published, pinned, pointer, gateway, tarball, version, todo>>

\* Step 1.
FetchPointer ==
  /\ pc = "start" /\ published # NoPointer
  /\ pc' = "gateways" /\ pointer' = published
  /\ UNCHANGED <<published, pinned, gateway, tarball, version, sandbox, todo, disk, archive>>

-----------------------------------------------------------------------------
\* Steps 2 and 3: the bytes of an answer with status 200 are taken as they are.
Receive(blob) == pc' = "build" /\ tarball' = blob /\ gateway' = 1

GatewayAnswers(blob) ==
  /\ pc = "gateways" /\ gateway <= NGateways
  /\ Receive(blob)
  /\ UNCHANGED <<published, pinned, pointer, version, sandbox, todo, disk, archive>>

\* Another status, a URLError, a timeout or an OSError: the next one is asked.
GatewayFails ==
  /\ pc = "gateways" /\ gateway <= NGateways
  /\ gateway' = gateway + 1
  /\ UNCHANGED <<published, pinned, pc, pointer, tarball, version, sandbox, todo, disk, archive>>

MirrorAnswers(blob) ==
  /\ pc = "gateways" /\ gateway > NGateways /\ pointer.mirror
  /\ Receive(blob)
  /\ UNCHANGED <<published, pinned, pointer, version, sandbox, todo, disk, archive>>

-----------------------------------------------------------------------------
(* Steps 4 and 5: build_version reads the file again, for the signature only.
   The signature check accepts whatever is not empty. *)
BuildVersion ==
  /\ pc = "build" /\ published # NoPointer
  /\ pc' = "verify" /\ version' = [hash |-> pointer.blob, signed |-> published.signed]
  /\ UNCHANGED <<published, pinned, pointer, gateway, tarball, sandbox, todo, disk, archive>>

\* Mutant of Verified: the signature is enough.
VerifiedBySignature == version.signed
Verified == tarball = version.hash /\ version.signed

Verify ==
  /\ pc = "verify" /\ Verified
  /\ pc' = "write"
  /\ UNCHANGED <<published, pinned, pointer, gateway, tarball, version, sandbox, todo, disk, archive>>

-----------------------------------------------------------------------------
\* Step 6: the tarball is written beside the directory ...
WriteArchive ==
  /\ pc = "write"
  /\ pc' = "check" /\ archive' = [archive EXCEPT ![sandbox] = tarball]
  /\ UNCHANGED <<published, pinned, pointer, gateway, tarball, version, sandbox, todo, disk>>

\* ... every member is checked before the first one is unpacked ...
\* Mutant of Acceptable: members are checked one by one, as they are unpacked.
AcceptableSoFar(blob) == Files[blob] # {}
Acceptable(blob) == blob \notin Rejected

CheckMembers ==
  /\ pc = "check" /\ Acceptable(archive[sandbox])
  /\ pc' = "unpack" /\ todo' = Files[archive[sandbox]]
  /\ UNCHANGED <<published, pinned, pointer, gateway, tarball, version, sandbox, disk, archive>>

\* ... over what the directory already holds, in the archive's order (any order here) ...
Unpack(name) ==
  /\ pc = "unpack" /\ name \in todo
  /\ todo' = todo \ {name}
  /\ disk' = [disk EXCEPT ![sandbox][name] = archive[sandbox]]
  /\ UNCHANGED <<published, pinned, pc, pointer, gateway, tarball, version, sandbox, archive>>

\* ... and the tarball is removed.
Unpacked ==
  /\ pc = "unpack" /\ todo = {}
  /\ pc' = "exec" /\ archive' = [archive EXCEPT ![sandbox] = NoBlob]
  /\ UNCHANGED <<published, pinned, pointer, gateway, tarball, version, sandbox, todo, disk>>

\* Step 7.
ExecEntrypoint ==
  /\ pc = "exec" /\ disk[sandbox][Entrypoint] # Missing
  /\ pc' = "running"
  /\ UNCHANGED <<published, pinned, pointer, gateway, tarball, version, sandbox, todo, disk, archive>>

Exits ==
  /\ pc = "running"
  /\ Ended("off")
  /\ UNCHANGED <<published, pinned, disk, archive>>

-----------------------------------------------------------------------------
(* What an exception leaves: http.client raises IncompleteRead, which is none
   of those a fetcher catches, when a connection ends inside the body. *)
ConnectionCut == pc = "gateways" /\ (gateway <= NGateways \/ pointer.mirror)

Raises ==
  \/ pc \in {"start", "build"} /\ published = NoPointer
  \/ ConnectionCut
  \/ pc = "gateways" /\ gateway > NGateways       \* no mirror, or it fails too
  \/ pc = "verify" /\ ~Verified
  \/ pc = "write"                                 \* before the try: what is there stays
  \/ pc = "exec" /\ disk[sandbox][Entrypoint] = Missing

Fail ==
  /\ Raises
  /\ Ended("failed")
  /\ UNCHANGED <<published, pinned, disk, archive>>

\* A member is refused, or the disk is full half way: the tarball is removed.
ExtractFails ==
  /\ \/ pc = "check" /\ ~Acceptable(archive[sandbox])
     \/ pc = "unpack" /\ todo # {}
  /\ Ended("failed") /\ archive' = [archive EXCEPT ![sandbox] = NoBlob]
  /\ UNCHANGED <<published, pinned, disk>>

\* The process is killed; what is on disk stays.
Crash ==
  /\ pc \notin {"off", "failed"}
  /\ Ended("off")
  /\ UNCHANGED <<published, pinned, disk, archive>>

Seed ==
  \/ \E dir \in Sandboxes : Start(dir)
  \/ FetchPointer \/ GatewayFails
  \/ \E blob \in Blobs : GatewayAnswers(blob) \/ MirrorAnswers(blob)
  \/ BuildVersion \/ Verify \/ WriteArchive \/ CheckMembers
  \/ (\E name \in Names : Unpack(name)) \/ Unpacked
  \/ ExecEntrypoint \/ Exits \/ Fail \/ ExtractFails

Next == Seed \/ Crash \/ \E p \in Pointer \cup {NoPointer} : Publish(p)
Spec == Init /\ [][Next]_vars

-----------------------------------------------------------------------------
(* Whatever a directory holds, after any number of crashes and restarts, came
   out of an archive that a pointer named and whose every member was accepted. *)
DiskHoldsPinned ==
  \A dir \in Sandboxes, name \in Names :
    disk[dir][name] # Missing => disk[dir][name] \in pinned \ Rejected

(* What runs is the release that the pointer of step 1 named, whole, whatever
   was published or left behind meanwhile; in a directory of its own, nothing
   else lies beside it. *)
RunsWhatWasPinned ==
  pc = "running" =>
    /\ \A name \in Files[pointer.blob] : disk[sandbox][name] = pointer.blob
    /\ sandbox = "fresh" =>
         \A name \in Names \ Files[pointer.blob] : disk["fresh"][name] = Missing

(* "Tries IPFS gateways in order. Falls back to direct HTTPS mirror if all
   gateways fail" (resurrection/fetch.py:4): a run does not give up at a
   gateway while the pointer names a mirror. *)
FallsBack ==
  [][pc = "gateways" /\ gateway <= NGateways /\ pointer.mirror => pc' # "failed"]_vars
=============================================================================
