------------------------------- MODULE Download -------------------------------
(***************************************************************************)
(* Verified downloads of one model asset into a shared directory           *)
(* (src/src/utils/download.rs).  A process is one call of ensure or fetch; *)
(* a program that starts again is another process.  They share the final   *)
(* path and meet only in the file system, where each call of it is a step. *)
(* A process may crash between any two steps, and the power may fail.      *)
(*                                                                         *)
(* A file is a number of blocks, all right or not; what was not synced may *)
(* be lost with the power.  The server, the disk and other programs that   *)
(* write to the final path are external.                                   *)
(***************************************************************************)
EXTENDS Naturals

CONSTANTS
    Process,
    Size,               \* the asset's size, in blocks
    MaxAttempts         \* names tried for the part file: 8 in the code

ASSUME DownloadAssumption == Size \in Nat \ {0} /\ MaxAttempts \in Nat \ {0}

VARIABLES
    windows,            \* the platform
    final,              \* what is at the final path
    before,             \* what was there before this library wrote to it
    files,              \* the part files, by name
    leftover,           \* names of the parts that no process will remove
    disturbed,          \* the power failed or another program was at the path
    pc, why,            \* where a process is, and why it compares the file
    attempt, hashed,    \* its part's name, what it has read and hashed
    result

disk == <<windows, final, before, files, leftover, disturbed>>
processVars == <<why, attempt, hashed>>
downloadVars == <<disk, pc, processVars, result>>

Name == Process \X (1..MaxAttempts)
Kind == {"none", "file", "link", "directory"}
Entry == [kind : Kind, blocks : Nat, right : BOOLEAN, synced : BOOLEAN]
Holding(kind) == [kind |-> kind, blocks |-> 0, right |-> FALSE, synced |-> TRUE]
Nothing == Holding("none")
File(blocks, right, synced) ==
    [kind |-> "file", blocks |-> blocks, right |-> right, synced |-> synced]
Exists(e) == e.kind # "none"
IsPlainFile(e) == e.kind = "file"
IsAsset(e) == IsPlainFile(e) /\ e.blocks = Size /\ e.right

\* The process id, a counter and chance make the name: no other process has it.
Part(p) == <<p, attempt[p]>>

\* What was at the final path: nothing, a damaged file, one of another size, or
\* something that is no plain file.
Foreign == {Nothing, File(Size, FALSE, TRUE), File(Size + 1, TRUE, TRUE),
            Holding("link"), Holding("directory")}

DownloadInit ==
    /\ windows \in BOOLEAN
    /\ final \in Foreign \cup {File(Size, TRUE, TRUE)} /\ before = final
    /\ \E k \in 0..MaxAttempts : leftover = Process \X (1..k)
    /\ files = [n \in Name |-> IF n \in leftover THEN File(1, TRUE, TRUE) ELSE Nothing]
    /\ disturbed = (windows /\ final.kind = "link")
    /\ pc = [p \in Process |-> "idle"] /\ why = [p \in Process |-> "ensure"]
    /\ attempt = [p \in Process |-> 1]
    /\ hashed = [p \in Process |-> [blocks |-> 0, right |-> TRUE]]
    /\ result = [p \in Process |-> "none"]

-----------------------------------------------------------------------------
Moves(p, place) == pc' = [pc EXCEPT ![p] = place]
Returns(p, r) == Moves(p, "returned") /\ result' = [result EXCEPT ![p] = r]
\* The part is removed when the call is about to return.
CleansUp(p, r) == Moves(p, "clean") /\ result' = [result EXCEPT ![p] = r]
\* Mutant: an error returns at once.
ReturnsDirty(p) == Returns(p, "error")
Fails(p) == CleansUp(p, "error")
Compares(p, reason) ==
    Moves(p, "look") /\ why' = [why EXCEPT ![p] = reason] /\ UNCHANGED result

\* ensure looks first, fetch goes straight on; an asset's name that is no file
\* name and a directory that cannot be made end the call.
Call(p) ==
    /\ pc[p] = "idle"
    /\ \/ Compares(p, "ensure")
       \/ Moves(p, "create") /\ UNCHANGED <<why, result>>
       \/ Returns(p, "error") /\ UNCHANGED why
    /\ UNCHANGED <<disk, attempt, hashed>>

\* file_matches: the metadata first, then the contents.  A file that was opened
\* is read to its end although another takes its place.
Matches(p) ==
    IF why[p] = "ensure" THEN Returns(p, "ok") ELSE CleansUp(p, "ok")
Mismatches(p) ==
    \/ why[p] = "ensure" /\ Moves(p, "create") /\ UNCHANGED result
    \/ /\ why[p] = "publish" /\ UNCHANGED result
       /\ Moves(p, IF windows THEN "link" ELSE "rename")
    \/ why[p] = "failed" /\ Fails(p)
\* Mutant: the size is enough.
LookOnly(p) ==
    /\ pc[p] = "look"
    /\ IF IsPlainFile(final) /\ final.blocks = Size THEN Matches(p) ELSE Mismatches(p)
    /\ UNCHANGED <<disk, processVars>>
Look(p) ==
    /\ pc[p] = "look"
    /\ IF IsPlainFile(final) /\ final.blocks = Size
       THEN Moves(p, "read") /\ UNCHANGED result
       ELSE Mismatches(p)
    /\ UNCHANGED <<disk, processVars>>
Read(p) ==
    /\ pc[p] = "read"
    /\ \/ IsAsset(final) /\ Matches(p)
       \/ Mismatches(p)
    /\ UNCHANGED <<disk, processVars>>

\* Mutant: a file of that name is written over.
CreateAnyway(p) ==
    /\ pc[p] = "create"
    /\ files' = [files EXCEPT ![Part(p)] = File(0, TRUE, FALSE)]
    /\ Moves(p, "request")
    /\ UNCHANGED <<windows, final, before, leftover, disturbed, processVars, result>>
\* Mutant: the names are tried again from the first.
NextOrFirst(k) == (k % MaxAttempts) + 1
NextAttempt(k) == k + 1
Create(p) ==
    /\ pc[p] = "create"
    /\ \/ /\ ~Exists(files[Part(p)])
          /\ files' = [files EXCEPT ![Part(p)] = File(0, TRUE, FALSE)]
          /\ Moves(p, "request") /\ UNCHANGED <<attempt, result>>
       \/ /\ Exists(files[Part(p)]) /\ NextAttempt(attempt[p]) \in 1..MaxAttempts
          /\ attempt' = [attempt EXCEPT ![p] = NextAttempt(@)]
          /\ UNCHANGED <<files, pc, result>>
       \/ /\ Returns(p, "error")
          /\ UNCHANGED <<files, attempt>>
    /\ UNCHANGED <<windows, final, before, leftover, disturbed, why, hashed>>

\* The request, its status and the length it announces.
Request(p) ==
    /\ pc[p] = "request"
    /\ \/ Moves(p, "stream") /\ UNCHANGED result
       \/ Fails(p)
    /\ UNCHANGED <<disk, processVars>>

\* A block is read, hashed and written, or one of the three fails.
Stream(p, right) ==
    LET got == [blocks |-> hashed[p].blocks + 1, right |-> hashed[p].right /\ right]
    IN  /\ pc[p] = "stream"
        /\ \/ /\ got.blocks <= Size
              /\ hashed' = [hashed EXCEPT ![p] = got]
              /\ files' = [files EXCEPT ![Part(p)] = File(@.blocks + 1, @.right /\ right, FALSE)]
              /\ UNCHANGED <<pc, result>>
           \/ Fails(p) /\ UNCHANGED <<files, hashed>>
        /\ UNCHANGED <<windows, final, before, leftover, disturbed, why, attempt>>

\* The end of the body: flush, sync, then the size and the checksum.
\* Mutants: the checks come after publication, or the file is never synced.
Unverified(p) == TRUE
Verified(p) == hashed[p] = [blocks |-> Size, right |-> TRUE]
SyncOnlyNamed(p) == UNCHANGED files
SyncAll(p) == files' = [files EXCEPT ![Part(p)] = File(@.blocks, @.right, TRUE)]
BodyEnds(p) ==
    /\ pc[p] = "stream"
    /\ \/ /\ Verified(p) /\ SyncAll(p)
          /\ Compares(p, "publish")
       \/ Fails(p) /\ UNCHANGED <<files, why>>
    /\ UNCHANGED <<windows, final, before, leftover, disturbed, attempt, hashed>>

\* publish, after the comparison.  Windows removes a link first.
CheckLink(p) ==
    /\ pc[p] = "link"
    /\ Moves(p, IF final.kind = "link" THEN "unlink" ELSE "rename")
    /\ UNCHANGED <<disk, processVars, result>>
RemoveFinal == final' = IF final.kind = "directory" THEN final ELSE Nothing
Unlink(p) ==
    /\ pc[p] = "unlink"
    /\ \/ Exists(final) /\ RemoveFinal /\ Moves(p, "rename") /\ UNCHANGED result
       \/ Fails(p) /\ UNCHANGED final
    /\ UNCHANGED <<windows, before, files, leftover, disturbed, processVars>>
Rename(p) ==
    /\ pc[p] = "rename"
    /\ \/ /\ final.kind # "directory"
          /\ final' = files[Part(p)] /\ files' = [files EXCEPT ![Part(p)] = Nothing]
          /\ Moves(p, "renamed") /\ UNCHANGED <<why, result>>
       \/ Compares(p, "failed") /\ UNCHANGED <<final, files>>
    /\ UNCHANGED <<windows, before, leftover, disturbed, attempt, hashed>>
LookAgain(p) ==
    /\ pc[p] = "renamed"
    /\ IF IsPlainFile(final) THEN Returns(p, "ok")
       ELSE Moves(p, "swapped") /\ UNCHANGED result
    /\ UNCHANGED <<disk, processVars>>
RemoveSwapped(p) ==
    /\ pc[p] = "swapped" /\ Returns(p, "error")
    /\ RemoveFinal
    /\ UNCHANGED <<windows, before, files, leftover, disturbed, processVars>>

\* A removal that fails is ignored.
CleanUp(p) ==
    /\ pc[p] = "clean" /\ Moves(p, "returned")
    /\ \/ files' = [files EXCEPT ![Part(p)] = Nothing] /\ UNCHANGED leftover
       \/ leftover' = leftover \cup {Part(p)} /\ UNCHANGED files
    /\ UNCHANGED <<windows, final, before, disturbed, processVars, result>>

Step(p) ==
    \/ Look(p) \/ Read(p) \/ Create(p) \/ Request(p) \/ \E b \in BOOLEAN : Stream(p, b)
    \/ BodyEnds(p) \/ CheckLink(p) \/ Unlink(p) \/ Rename(p) \/ LookAgain(p)
    \/ RemoveSwapped(p) \/ CleanUp(p)

-----------------------------------------------------------------------------
Gone == {"idle", "returned", "crashed"}
HasPart(p) ==
    \/ pc[p] \in {"request", "stream", "link", "unlink", "rename", "clean"}
    \/ pc[p] \in {"look", "read"} /\ why[p] # "ensure"
Crash(p) ==
    /\ pc[p] \notin Gone /\ Moves(p, "crashed")
    /\ leftover' = leftover \cup (IF HasPart(p) THEN {Part(p)} ELSE {})
    /\ UNCHANGED <<windows, final, before, files, disturbed, processVars, result>>

\* The power fails: files that were not synced are spoilt, and a rename may be
\* undone since nothing syncs the directory.
Spoilt(e) == IF IsPlainFile(e) /\ ~e.synced THEN File(e.blocks, FALSE, TRUE) ELSE e
PowerLoss ==
    /\ \E p \in Process : pc[p] \notin Gone
    /\ pc' = [p \in Process |-> IF pc[p] \in Gone THEN pc[p] ELSE "crashed"]
    /\ leftover' = leftover \cup {Part(p) : p \in {q \in Process : HasPart(q)}}
    /\ files' = [n \in Name |-> Spoilt(files[n])]
    /\ final' \in {Spoilt(final), before} /\ disturbed' = TRUE
    /\ before' = IF IsAsset(final') THEN final' ELSE before
    /\ UNCHANGED <<windows, processVars, result>>

\* Another program puts something at the final path, once.
Meddle ==
    /\ ~disturbed /\ disturbed' = TRUE
    /\ \E e \in Foreign : e.kind # "link" /\ final' = e
    /\ before' = final'
    /\ UNCHANGED <<windows, files, leftover, pc, processVars, result>>

DownloadNext ==
    \/ \E p \in Process : Call(p) \/ Step(p) \/ Crash(p)
    \/ PowerLoss \/ Meddle

DownloadSpec == DownloadInit /\ [][DownloadNext]_downloadVars
\* A process that runs goes on: reads of the network and the disk end, for the
\* client's time limits see to it.
FairDownloadSpec == DownloadSpec /\ \A p \in Process : WF_downloadVars(Step(p))

-----------------------------------------------------------------------------
TypeOK ==
    /\ windows \in BOOLEAN /\ disturbed \in BOOLEAN
    /\ final \in Entry /\ before \in Entry
    /\ files \in [Name -> Entry] /\ leftover \in SUBSET Name
    /\ pc \in [Process -> Gone \cup {"look", "read", "create", "request", "stream", "link",
                                     "unlink", "rename", "renamed", "swapped", "clean"}]
    /\ why \in [Process -> {"ensure", "publish", "failed"}]
    /\ attempt \in [Process -> 1..MaxAttempts]
    /\ hashed \in [Process -> [blocks : 0..Size, right : BOOLEAN]]
    /\ result \in [Process -> {"none", "ok", "error"}]

\* What a call has returned as verified stays at the final path, whatever others
\* download, fail or crash meanwhile, unless the power or another program
\* interferes (or, on Windows, a link was there that two processes remove).
OkIsVerified ==
    ~disturbed => \A p \in Process : result[p] = "ok" => IsAsset(final)

\* Crashes and power losses included, what the library leaves at the final path
\* is the whole asset, or what was there before: never a torn download.
FinalIsWhole == IsAsset(final) \/ final = before \/ ~Exists(final)

\* The part files there are, are exactly those of running calls, each its own,
\* and those nobody will remove: crashed calls' parts are not touched, and a call
\* that returns leaves none unless its removal failed.
PartsAccounted ==
    \A n \in Name :
        Exists(files[n]) <=> n \in leftover \/ \E p \in Process : HasPart(p) /\ n = Part(p)

\* Every call returns or crashes, also when each name or every download fails.
CallsEnd == (\E p \in Process : pc[p] \notin Gone) ~> (\A p \in Process : pc[p] \in Gone)
===============================================================================
