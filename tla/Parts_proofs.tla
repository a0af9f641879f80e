------------------------------ MODULE Parts_proofs ------------------------------
(***************************************************************************)
(* The parts that share no state with the rest: downloads, for any number  *)
(* of processes, any size of the asset and any number of attempts; the     *)
(* local drivers, for any texts and any number of chunks and segments; the *)
(* capture, for any sizes of its queue, ring and batches; the resampler,   *)
(* for any rates whose filter lags no more than a block; the parser of     *)
(* events, for any bytes in any chunks.                                    *)
(***************************************************************************)
EXTENDS Download, LocalDriver, Capture, Resampler, Sse, SequenceTheorems, FiniteSetTheorems,
        NaturalsInduction, WellFoundedInduction, TLAPS

-----------------------------------------------------------------------------
\* Downloads.
\* A part is some process's own, until that removes it, publishes it or leaves it.
PartsOwned == \A p \in Process : HasPart(p) => Part(p) \notin leftover

\* What a process has hashed is what is in its part; a part that is verified is
\* the asset, on the disk, until the process stops looking at the final path.
NothingHashed(p) ==
    pc[p] \in {"idle", "create"} \/ (pc[p] \in {"look", "read"} /\ why[p] = "ensure")
Publishing(p) ==
    pc[p] \in {"link", "unlink", "rename"} \/ (pc[p] \in {"look", "read"} /\ why[p] # "ensure")
HashedOf(p) ==
    /\ NothingHashed(p) => hashed[p] = [blocks |-> 0, right |-> TRUE]
    /\ pc[p] \in {"request", "stream"} =>
         files[Part(p)] = File(hashed[p].blocks, hashed[p].right, FALSE)
    /\ Publishing(p) => files[Part(p)] = File(Size, TRUE, TRUE)
PartIsHashed == \A p \in Process : HashedOf(p)

\* The power cannot spoil what is at the final path.
FinalIsSynced == final.synced /\ before.synced

\* Without a disturbance nobody removes what is at the final path.
NobodyRemoves ==
    /\ ~disturbed => ~(windows /\ final.kind = "link")
    /\ \A p \in Process :
         /\ pc[p] = "link" => windows
         /\ ~disturbed => pc[p] \notin {"unlink", "swapped"}
         /\ ~disturbed /\ pc[p] = "renamed" => IsAsset(final)

DownloadInv ==
    /\ TypeOK /\ PartsAccounted /\ PartsOwned /\ PartIsHashed
    /\ FinalIsSynced /\ FinalIsWhole /\ NobodyRemoves /\ OkIsVerified
-----------------------------------------------------------------------------
\* Files, and what else there may be, are entries; parts have names.
LEMMA EntriesTyped ==
    /\ \A b \in Nat, r \in BOOLEAN, s \in BOOLEAN : File(b, r, s) \in Entry
    /\ Nothing \in Entry /\ Foreign \subseteq Entry
    /\ \A e \in Entry : Spoilt(e) \in Entry
<1> USE DownloadAssumption DEF Entry, Kind, File, Holding, Nothing
<1>1. \A b \in Nat, r \in BOOLEAN, s \in BOOLEAN : File(b, r, s) \in Entry
  OBVIOUS
<1>2. Nothing \in Entry /\ Foreign \subseteq Entry
  BY DEF Foreign
<1>3. \A e \in Entry : Spoilt(e) \in Entry
  BY DEF Spoilt, IsPlainFile
<1> QED
  BY <1>1, <1>2, <1>3

\* A process's part has a name of its own.
LEMMA PartsTyped ==
    ASSUME TypeOK, NEW p \in Process PROVE Part(p) \in Name
BY DEF TypeOK, Part, Name

\* What an assignment to a process's part does to the parts.
LEMMA PartAssigned ==
    ASSUME TypeOK, NEW p \in Process, NEW e \in Entry, files' = [files EXCEPT ![Part(p)] = e]
    PROVE  /\ files' \in [Name -> Entry]
           /\ files'[<<p, attempt[p]>>] = e
           /\ \A k \in 1..MaxAttempts : k # attempt[p] => files'[<<p, k>>] = files[<<p, k>>]
<1>1. Part(p) \in Name /\ Part(p) = <<p, attempt[p]>> /\ attempt[p] \in 1..MaxAttempts
  BY PartsTyped DEF TypeOK, Part
<1>2. files \in [Name -> Entry]
  BY DEF TypeOK
<1>3. files' \in [Name -> Entry] /\ files'[<<p, attempt[p]>>] = e
  BY <1>1, <1>2
<1>4. \A k \in 1..MaxAttempts : k # attempt[p] => <<p, k>> \in Name /\ <<p, k>> # Part(p)
  BY <1>1 DEF Name
<1>5. \A n \in Name : n # Part(p) => files'[n] = files[n]
  BY <1>1, <1>2
<1> QED
  BY <1>3, <1>4, <1>5

\* The parts that the steps of a process make: empty, with a block more, synced.
LEMMA PartWritten ==
    ASSUME TypeOK, NEW p \in Process, NEW b \in BOOLEAN
    PROVE  LET part == files[Part(p)]
           IN  /\ part \in Entry /\ File(0, TRUE, FALSE) \in Entry
               /\ File(part.blocks + 1, part.right /\ b, FALSE) \in Entry
               /\ File(part.blocks, part.right, TRUE) \in Entry
<1> DEFINE part == files[Part(p)]
<1>1. part \in Entry
  BY PartsTyped DEF TypeOK
<1>2. part.blocks \in Nat /\ part.blocks + 1 \in Nat
      /\ part.right \in BOOLEAN /\ (part.right /\ b) \in BOOLEAN
  BY <1>1 DEF Entry
<1> QED
  BY <1>1, <1>2, EntriesTyped

\* The conjuncts of DownloadInv in turn, each with one step per action.
LEMMA StepTyped ==
    ASSUME TypeOK, [DownloadNext]_downloadVars PROVE TypeOK'
<1> USE EntriesTyped DEF TypeOK, Gone
<1>1. CASE UNCHANGED downloadVars
  BY <1>1 DEF downloadVars, disk, processVars
<1>2. ASSUME NEW p \in Process, Call(p) \/ Step(p) \/ Crash(p) PROVE TypeOK'
  <2>1. ASSUME Call(p) PROVE TypeOK'
    BY <2>1 DEF Call, Compares, Returns, Moves, disk, processVars
  <2>2. ASSUME Look(p) PROVE TypeOK'
    BY <2>2 DEF Look, Mismatches, Fails, CleansUp, Moves, disk, processVars
  <2>3. ASSUME Read(p) PROVE TypeOK'
    BY <2>3 DEF Read, Matches, Mismatches, Returns, Fails, CleansUp, Moves, disk, processVars
  <2>4. ASSUME Create(p) PROVE TypeOK'
    <3>1. files' \in [Name -> Entry]
      BY <2>4, PartAssigned, PartWritten DEF Create
    <3>2. attempt' \in [Process -> 1..MaxAttempts]
      BY <2>4 DEF Create
    <3> QED
      BY <2>4, <3>1, <3>2 DEF Create, Returns, Moves
  <2>5. ASSUME Request(p) PROVE TypeOK'
    BY <2>5 DEF Request, Fails, CleansUp, Moves, disk, processVars
  <2>6. ASSUME \E b \in BOOLEAN : Stream(p, b) PROVE TypeOK'
    <3>1. PICK b \in BOOLEAN : Stream(p, b)
      BY <2>6
    <3>3. files' \in [Name -> Entry]
      BY <3>1, PartAssigned, PartWritten DEF Stream
    <3> DEFINE got == [blocks |-> hashed[p].blocks + 1, right |-> hashed[p].right /\ b]
    <3>4. got.blocks <= Size => got \in [blocks : 0..Size, right : BOOLEAN]
      BY DownloadAssumption
    <3>5. hashed' \in [Process -> [blocks : 0..Size, right : BOOLEAN]]
      BY <3>1, <3>4 DEF Stream
    <3> QED
      BY <3>1, <3>3, <3>5 DEF Stream, Fails, CleansUp, Moves
  <2>7. ASSUME BodyEnds(p) PROVE TypeOK'
    <3>1. files' \in [Name -> Entry]
      BY <2>7, PartAssigned, PartWritten DEF BodyEnds, SyncAll
    <3> QED
      BY <2>7, <3>1 DEF BodyEnds, Compares, Fails, CleansUp, Moves
  <2>8. ASSUME CheckLink(p) PROVE TypeOK'
    BY <2>8 DEF CheckLink, Moves, disk, processVars
  <2>9. ASSUME Unlink(p) PROVE TypeOK'
    BY <2>9 DEF Unlink, RemoveFinal, Fails, CleansUp, Moves, disk, processVars
  <2>10. ASSUME Rename(p) PROVE TypeOK'
    <3>1. files' \in [Name -> Entry] /\ final' \in Entry
      BY <2>10, PartAssigned, PartWritten DEF Rename
    <3> QED
      BY <2>10, <3>1 DEF Rename, Compares, Moves
  <2>11. ASSUME LookAgain(p) PROVE TypeOK'
    BY <2>11 DEF LookAgain, Returns, Moves, disk, processVars
  <2>12. ASSUME RemoveSwapped(p) PROVE TypeOK'
    BY <2>12 DEF RemoveSwapped, RemoveFinal, Returns, Moves, disk, processVars
  <2>13. ASSUME CleanUp(p) PROVE TypeOK'
    BY <2>13, PartsTyped DEF CleanUp, Moves, disk, processVars
  <2>14. ASSUME Crash(p) PROVE TypeOK'
    BY <2>14, PartsTyped DEF Crash, HasPart, Moves, disk, processVars
  <2> QED
    BY <1>2, <2>1, <2>2, <2>3, <2>4, <2>5, <2>6, <2>7, <2>8, <2>9, <2>10, <2>11, <2>12, <2>13, <2>14 DEF Step
<1>3. CASE PowerLoss
  <2>1. files' \in [Name -> Entry] /\ final' \in Entry /\ before' \in Entry
    BY <1>3 DEF PowerLoss
  <2>2. leftover' \subseteq Name
    BY <1>3, PartsTyped DEF PowerLoss
  <2>3. pc' \in [Process -> Gone \cup {"look", "read", "create", "request", "stream", "link",
                                     "unlink", "rename", "renamed", "swapped", "clean"}]
    BY <1>3 DEF PowerLoss
  <2> QED
    BY <1>3, <2>1, <2>2, <2>3 DEF PowerLoss, processVars
<1>4. CASE Meddle
  BY <1>4 DEF Meddle, processVars
<1> QED
  BY <1>1, <1>2, <1>3, <1>4 DEF DownloadNext

\* A step of one process touches nothing that is another's.
OfOthersKept(p) ==
    \A q \in Process \ {p} :
        /\ pc'[q] = pc[q] /\ why'[q] = why[q] /\ attempt'[q] = attempt[q]
        /\ hashed'[q] = hashed[q] /\ result'[q] = result[q]
        /\ \A k \in 1..MaxAttempts :
             /\ files'[<<q, k>>] = files[<<q, k>>]
             /\ <<q, k>> \in leftover' <=> <<q, k>> \in leftover

\* A step of one process leaves the parts of the others alone.
LEMMA OthersKept ==
    ASSUME TypeOK, NEW p \in Process, Call(p) \/ Step(p) \/ Crash(p) PROVE OfOthersKept(p)
<1> USE DEF TypeOK, OfOthersKept, Part, Name
<1>1. ASSUME Call(p) PROVE OfOthersKept(p)
  BY <1>1 DEF Call, Compares, Returns, Moves, disk, processVars
<1>2. ASSUME Look(p) PROVE OfOthersKept(p)
  BY <1>2 DEF Look, Mismatches, Fails, CleansUp, Moves, disk, processVars
<1>3. ASSUME Read(p) PROVE OfOthersKept(p)
  BY <1>3 DEF Read, Matches, Mismatches, Returns, Fails, CleansUp, Moves, disk, processVars
<1>4. ASSUME Create(p) PROVE OfOthersKept(p)
  BY <1>4 DEF Create, NextAttempt, Returns, Moves, disk, processVars
<1>5. ASSUME Request(p) PROVE OfOthersKept(p)
  BY <1>5 DEF Request, Fails, CleansUp, Moves, disk, processVars
<1>6. ASSUME \E b \in BOOLEAN : Stream(p, b) PROVE OfOthersKept(p)
  BY <1>6 DEF Stream, Fails, CleansUp, Moves, disk, processVars
<1>7. ASSUME BodyEnds(p) PROVE OfOthersKept(p)
  <2>1. UNCHANGED <<leftover, attempt, hashed>>
    BY <1>7 DEF BodyEnds
  <2>2. ASSUME SyncAll(p), Compares(p, "publish") PROVE OfOthersKept(p)
    BY <2>1, <2>2 DEF SyncAll, Compares, Moves
  <2>3. ASSUME Fails(p), UNCHANGED <<files, why>> PROVE OfOthersKept(p)
    BY <2>1, <2>3 DEF Fails, CleansUp, Moves
  <2> QED
    BY <1>7, <2>2, <2>3 DEF BodyEnds
<1>8. ASSUME CheckLink(p) PROVE OfOthersKept(p)
  BY <1>8 DEF CheckLink, Moves, disk, processVars
<1>9. ASSUME Unlink(p) PROVE OfOthersKept(p)
  BY <1>9 DEF Unlink, RemoveFinal, Fails, CleansUp, Moves, disk, processVars
<1>10. ASSUME Rename(p) PROVE OfOthersKept(p)
  BY <1>10 DEF Rename, Compares, Moves, disk, processVars
<1>11. ASSUME LookAgain(p) PROVE OfOthersKept(p)
  BY <1>11 DEF LookAgain, Returns, Moves, disk, processVars
<1>12. ASSUME RemoveSwapped(p) PROVE OfOthersKept(p)
  BY <1>12 DEF RemoveSwapped, RemoveFinal, Returns, Moves, disk, processVars
<1>13. ASSUME CleanUp(p) PROVE OfOthersKept(p)
  BY <1>13 DEF CleanUp, Moves, disk, processVars
<1>14. ASSUME Crash(p) PROVE OfOthersKept(p)
  BY <1>14 DEF Crash, HasPart, Moves, disk, processVars
<1> QED
  BY <1>1, <1>2, <1>3, <1>4, <1>5, <1>6, <1>7, <1>8, <1>9, <1>10, <1>11, <1>12, <1>13, <1>14 DEF Step

\* The parts of one process.
AccountedOf(p) ==
    /\ \A k \in 1..MaxAttempts :
         Exists(files[<<p, k>>]) <=> <<p, k>> \in leftover \/ (HasPart(p) /\ k = attempt[p])
    /\ HasPart(p) => <<p, attempt[p]>> \notin leftover

\* All parts are accounted for when those of each process are.
LEMMA AccountedByProcess ==
    TypeOK => (PartsAccounted /\ PartsOwned <=> \A p \in Process : AccountedOf(p))
<1> SUFFICES ASSUME TypeOK PROVE PartsAccounted /\ PartsOwned <=> \A p \in Process : AccountedOf(p)
  OBVIOUS
<1> USE DEF TypeOK, PartsAccounted, PartsOwned, AccountedOf, Part
<1>1. \A q \in Process, k \in 1..MaxAttempts : <<q, k>> \in Name
  BY DEF Name
<1>2. \A n \in Name : n[1] \in Process /\ n[2] \in 1..MaxAttempts /\ n = <<n[1], n[2]>>
  BY DEF Name
<1>3. ASSUME PartsAccounted, PartsOwned, NEW p \in Process PROVE AccountedOf(p)
  BY <1>1, <1>3
<1>4. ASSUME \A p \in Process : AccountedOf(p) PROVE PartsOwned
  BY <1>4
<1>5. ASSUME \A p \in Process : AccountedOf(p), NEW n \in Name
      PROVE  Exists(files[n]) <=> n \in leftover \/ \E p \in Process : HasPart(p) /\ n = Part(p)
  <2>1. PICK q \in Process, k \in 1..MaxAttempts : n = <<q, k>>
    BY <1>2
  <2>2. (\E p \in Process : HasPart(p) /\ n = Part(p)) <=> HasPart(q) /\ k = attempt[q]
    BY <2>1
  <2> QED
    BY <1>5, <2>1, <2>2
<1> QED
  BY <1>3, <1>4, <1>5

\* Names are the processes' own, so that a part is only touched by its process.
LEMMA StepAccountedOf ==
    ASSUME TypeOK, \A p \in Process : AccountedOf(p), [DownloadNext]_downloadVars PROVE \A p \in Process : AccountedOf(p)'
<1> USE DEF TypeOK, AccountedOf, HasPart, Part, Name, Gone, File, Nothing, Holding, Exists
<1>1. CASE UNCHANGED downloadVars
  BY <1>1 DEF downloadVars, disk, processVars
<1>2. ASSUME NEW p \in Process, Call(p) \/ Step(p) \/ Crash(p) PROVE \A q \in Process : AccountedOf(q)'
  <2>1. ASSUME Call(p) PROVE AccountedOf(p)'
    BY <2>1 DEF Call, Compares, Returns, Moves, disk, processVars
  <2>2. ASSUME Look(p) PROVE AccountedOf(p)'
    <3>1. files' = files /\ leftover' = leftover /\ attempt' = attempt
      BY <2>2 DEF Look, disk, processVars
    <3>2. HasPart(p)' <=> HasPart(p)
      BY <2>2 DEF Look, Mismatches, Fails, CleansUp, Moves, disk, processVars
    <3> QED
      BY <3>1, <3>2
  <2>3. ASSUME Read(p) PROVE AccountedOf(p)'
    <3>1. files' = files /\ leftover' = leftover /\ attempt' = attempt
      BY <2>3 DEF Read, disk, processVars
    <3>2. HasPart(p)' <=> HasPart(p)
      BY <2>3 DEF Read, Matches, Mismatches, Returns, Fails, CleansUp, Moves, disk, processVars
    <3> QED
      BY <3>1, <3>2
  <2>4. ASSUME Create(p) PROVE AccountedOf(p)'
    <3>1. CASE files' = [files EXCEPT ![Part(p)] = File(0, TRUE, FALSE)] /\ ~Exists(files[Part(p)])
               /\ UNCHANGED attempt
      <4>1. files'[<<p, attempt[p]>>].kind = "file"
            /\ \A k \in 1..MaxAttempts : k # attempt[p] => files'[<<p, k>>] = files[<<p, k>>]
        BY <3>1, PartAssigned, PartWritten
      <4>2. leftover' = leftover /\ ~HasPart(p) /\ HasPart(p)'
        BY <2>4, <3>1 DEF Create, Returns, Moves
      <4> QED
        BY <3>1, <4>1, <4>2
    <3>2. CASE UNCHANGED files
      BY <2>4, <3>2 DEF Create, Returns, Moves
    <3> QED
      BY <2>4, <3>1, <3>2 DEF Create
  <2>5. ASSUME Request(p) PROVE AccountedOf(p)'
    BY <2>5 DEF Request, Fails, CleansUp, Moves, disk, processVars
  <2>6. ASSUME NEW b \in BOOLEAN, Stream(p, b) PROVE AccountedOf(p)'
    <3>1. \A k \in 1..MaxAttempts : Exists(files'[<<p, k>>]) <=> Exists(files[<<p, k>>])
      <4> DEFINE e == File(files[Part(p)].blocks + 1, files[Part(p)].right /\ b, FALSE)
      <4>1. CASE files' = [files EXCEPT ![Part(p)] = e]
        <5>1. e \in Entry /\ e.kind = "file"
          BY PartWritten
        <5>2. Exists(files[<<p, attempt[p]>>])
          BY <2>6 DEF Stream
        <5> HIDE DEF e
        <5>3. files'[<<p, attempt[p]>>] = e
              /\ \A k \in 1..MaxAttempts : k # attempt[p] => files'[<<p, k>>] = files[<<p, k>>]
          BY <4>1, <5>1, PartAssigned
        <5> QED
          BY <5>1, <5>2, <5>3
      <4>2. CASE UNCHANGED files
        BY <4>2
      <4> QED
        BY <2>6, <4>1, <4>2 DEF Stream
    <3>2. leftover' = leftover /\ attempt' = attempt /\ HasPart(p) /\ HasPart(p)'
      BY <2>6 DEF Stream, Fails, CleansUp, Moves
    <3> QED
      BY <3>1, <3>2
  <2>7. ASSUME BodyEnds(p) PROVE AccountedOf(p)'
    <3>1. \A k \in 1..MaxAttempts : Exists(files'[<<p, k>>]) <=> Exists(files[<<p, k>>])
      <4> DEFINE e == File(files[Part(p)].blocks, files[Part(p)].right, TRUE)
      <4>1. CASE files' = [files EXCEPT ![Part(p)] = e]
        <5>1. e \in Entry /\ e.kind = "file"
          BY PartWritten
        <5>3. Exists(files[<<p, attempt[p]>>])
          BY <2>7 DEF BodyEnds
        <5> HIDE DEF e
        <5>2. files'[<<p, attempt[p]>>] = e
              /\ \A k \in 1..MaxAttempts : k # attempt[p] => files'[<<p, k>>] = files[<<p, k>>]
          BY <4>1, <5>1, PartAssigned
        <5> QED
          BY <5>1, <5>2, <5>3
      <4>2. CASE UNCHANGED files
        BY <4>2
      <4> QED
        BY <2>7, <4>1, <4>2 DEF BodyEnds, SyncAll
    <3>2. leftover' = leftover /\ attempt' = attempt /\ HasPart(p) /\ HasPart(p)'
      BY <2>7 DEF BodyEnds, Compares, Fails, CleansUp, Moves
    <3> QED
      BY <3>1, <3>2
  <2>8. ASSUME CheckLink(p) PROVE AccountedOf(p)'
    BY <2>8 DEF CheckLink, Moves, disk, processVars
  <2>9. ASSUME Unlink(p) PROVE AccountedOf(p)'
    BY <2>9 DEF Unlink, RemoveFinal, Fails, CleansUp, Moves, disk, processVars
  <2>10. ASSUME Rename(p) PROVE AccountedOf(p)'
    <3>1. CASE files' = [files EXCEPT ![Part(p)] = Nothing]
      <4>1. ~Exists(files'[<<p, attempt[p]>>])
            /\ \A k \in 1..MaxAttempts : k # attempt[p] => files'[<<p, k>>] = files[<<p, k>>]
        BY <3>1, PartAssigned, EntriesTyped
      <4> QED
        BY <2>10, <3>1, <4>1 DEF Rename, Compares, Moves
    <3>2. CASE UNCHANGED files
      BY <2>10, <3>2 DEF Rename, Compares, Moves
    <3> QED
      BY <2>10, <3>1, <3>2 DEF Rename
  <2>11. ASSUME LookAgain(p) PROVE AccountedOf(p)'
    BY <2>11 DEF LookAgain, Returns, Moves, disk, processVars
  <2>12. ASSUME RemoveSwapped(p) PROVE AccountedOf(p)'
    BY <2>12 DEF RemoveSwapped, RemoveFinal, Returns, Moves, disk, processVars
  <2>13. ASSUME CleanUp(p) PROVE AccountedOf(p)'
    <3>1. CASE files' = [files EXCEPT ![Part(p)] = Nothing]
      <4>1. ~Exists(files'[<<p, attempt[p]>>])
            /\ \A k \in 1..MaxAttempts : k # attempt[p] => files'[<<p, k>>] = files[<<p, k>>]
        BY <3>1, PartAssigned, EntriesTyped
      <4> QED
        BY <2>13, <3>1, <4>1 DEF CleanUp, Moves, processVars
    <3>2. CASE UNCHANGED files /\ leftover' = leftover \cup {Part(p)}
      BY <2>13, <3>2 DEF CleanUp, Moves, processVars
    <3> QED
      BY <2>13, <3>1, <3>2 DEF CleanUp
  <2>14. ASSUME Crash(p) PROVE AccountedOf(p)'
    BY <2>14 DEF Crash, HasPart, Moves, disk, processVars
  <2>15. AccountedOf(p)'
    BY <1>2, <2>1, <2>2, <2>3, <2>4, <2>5, <2>6, <2>7, <2>8, <2>9, <2>10, <2>11, <2>12, <2>13, <2>14 DEF Step
  <2>16. ASSUME NEW q \in Process \ {p} PROVE AccountedOf(q)'
    BY <1>2, OthersKept DEF OfOthersKept
  <2> QED
    BY <2>15, <2>16
<1>3. CASE PowerLoss
  BY <1>3 DEF PowerLoss, processVars, Spoilt, IsPlainFile
<1>4. CASE Meddle
  BY <1>4 DEF Meddle, processVars
<1> QED
  BY <1>1, <1>2, <1>3, <1>4 DEF DownloadNext

\* A step of a process leaves every part accounted for.
LEMMA StepAccounted ==
    ASSUME TypeOK, PartsAccounted, PartsOwned, [DownloadNext]_downloadVars
    PROVE  PartsAccounted' /\ PartsOwned'
<1>1. \A p \in Process : AccountedOf(p)
  BY AccountedByProcess
<1>2. \A p \in Process : AccountedOf(p)'
  BY <1>1, StepAccountedOf
<1>3. TypeOK'
  BY StepTyped
<1>4. TypeOK' /\ (\A p \in Process : AccountedOf(p))' => PartsAccounted' /\ PartsOwned'
  BY AccountedByProcess, PTL
<1> QED
  BY <1>2, <1>3, <1>4

\* A block goes to the hash and to the part alike.
LEMMA StepHashed ==
    ASSUME TypeOK, PartIsHashed, [DownloadNext]_downloadVars PROVE PartIsHashed'
<1> USE DEF TypeOK, PartIsHashed, HashedOf, NothingHashed, Publishing, Part, Name, Gone, File
<1>1. CASE UNCHANGED downloadVars
  BY <1>1 DEF downloadVars, disk, processVars
<1>2. ASSUME NEW p \in Process, Call(p) \/ Step(p) \/ Crash(p) PROVE PartIsHashed'
  <2>1. ASSUME Call(p) PROVE HashedOf(p)'
    BY <2>1 DEF Call, Compares, Returns, Moves, disk, processVars
  <2>2. ASSUME Look(p) PROVE HashedOf(p)'
    BY <2>2 DEF Look, Mismatches, Fails, CleansUp, Moves, disk, processVars
  <2>3. ASSUME Read(p) PROVE HashedOf(p)'
    BY <2>3 DEF Read, Matches, Mismatches, Returns, Fails, CleansUp, Moves, disk, processVars
  <2>4. ASSUME Create(p) PROVE HashedOf(p)'
    <3>1. CASE files' = [files EXCEPT ![Part(p)] = File(0, TRUE, FALSE)] /\ UNCHANGED attempt
               /\ Moves(p, "request")
      <4>1. files'[<<p, attempt[p]>>] = File(0, TRUE, FALSE)
        BY <3>1, PartAssigned, PartWritten
      <4>2. hashed' = hashed /\ hashed[p] = [blocks |-> 0, right |-> TRUE]
        BY <2>4 DEF Create
      <4>3. pc'[p] = "request" /\ attempt'[p] = attempt[p]
        BY <3>1 DEF Moves
      <4> QED
        BY <4>1, <4>2, <4>3
    <3>2. CASE UNCHANGED <<files, pc, result>>
      BY <2>4, <3>2 DEF Create
    <3>3. CASE Returns(p, "error")
      BY <2>4, <3>3 DEF Create, Returns, Moves
    <3> QED
      BY <2>4, <3>1, <3>2, <3>3 DEF Create
  <2>5. ASSUME Request(p) PROVE HashedOf(p)'
    BY <2>5 DEF Request, Fails, CleansUp, Moves, disk, processVars
  <2>6. ASSUME NEW b \in BOOLEAN, Stream(p, b) PROVE HashedOf(p)'
    <3> DEFINE e == File(files[Part(p)].blocks + 1, files[Part(p)].right /\ b, FALSE)
    <3>1. CASE files' = [files EXCEPT ![Part(p)] = e] /\ UNCHANGED <<pc, result>>
               /\ hashed' = [hashed EXCEPT ![p] = [blocks |-> hashed[p].blocks + 1,
                                                  right |-> hashed[p].right /\ b]]
      <4>1. files'[<<p, attempt[p]>>] = e
        <5>1. e \in Entry
          BY PartWritten
        <5>2. files' = [files EXCEPT ![Part(p)] = e]
          BY <3>1
        <5> HIDE DEF e
        <5> QED
          BY ONLY TypeOK, <5>1, <5>2, PartAssigned
      <4>2. files[Part(p)] = File(hashed[p].blocks, hashed[p].right, FALSE)
        BY <2>6 DEF Stream
      <4>3. e = File(hashed'[p].blocks, hashed'[p].right, FALSE)
        BY <3>1, <4>2
      <4>4. attempt' = attempt /\ pc[p] = "stream"
        BY <2>6 DEF Stream
      <4> HIDE DEF e
      <4> QED
        BY <3>1, <4>1, <4>3, <4>4
    <3>2. CASE UNCHANGED files /\ Fails(p)
      BY <2>6, <3>2 DEF Stream, Fails, CleansUp, Moves
    <3> QED
      BY <2>6, <3>1, <3>2 DEF Stream
  <2>7. ASSUME BodyEnds(p) PROVE HashedOf(p)'
    <3> DEFINE e == File(files[Part(p)].blocks, files[Part(p)].right, TRUE)
    <3>1. CASE files' = [files EXCEPT ![Part(p)] = e] /\ Verified(p) /\ Compares(p, "publish")
      <4>1. files'[<<p, attempt[p]>>] = e
        <5>1. e \in Entry
          BY PartWritten
        <5>2. files' = [files EXCEPT ![Part(p)] = e]
          BY <3>1
        <5> HIDE DEF e
        <5> QED
          BY ONLY TypeOK, <5>1, <5>2, PartAssigned
      <4>2. pc[p] = "stream" /\ hashed[p] = [blocks |-> Size, right |-> TRUE]
        BY <2>7, <3>1 DEF BodyEnds, Verified
      <4>3. files[Part(p)] = File(hashed[p].blocks, hashed[p].right, FALSE)
        BY <4>2
      <4>5. e = File(Size, TRUE, TRUE)
        BY <4>2, <4>3
      <4>4. attempt' = attempt
        BY <2>7 DEF BodyEnds
      <4> HIDE DEF e
      <4> QED
        BY <3>1, <4>1, <4>4, <4>5 DEF Compares, Moves
    <3>2. CASE UNCHANGED <<files, why>> /\ Fails(p)
      BY <2>7, <3>2 DEF BodyEnds, Fails, CleansUp, Moves
    <3> QED
      BY <2>7, <3>1, <3>2 DEF BodyEnds, SyncAll
  <2>8. ASSUME CheckLink(p) PROVE HashedOf(p)'
    BY <2>8 DEF CheckLink, Moves, disk, processVars
  <2>9. ASSUME Unlink(p) PROVE HashedOf(p)'
    BY <2>9 DEF Unlink, RemoveFinal, Fails, CleansUp, Moves, disk, processVars
  <2>10. ASSUME Rename(p) PROVE HashedOf(p)'
    BY <2>10 DEF Rename, Compares, Moves, disk, processVars
  <2>11. ASSUME LookAgain(p) PROVE HashedOf(p)'
    BY <2>11 DEF LookAgain, Returns, Moves, disk, processVars
  <2>12. ASSUME RemoveSwapped(p) PROVE HashedOf(p)'
    BY <2>12 DEF RemoveSwapped, RemoveFinal, Returns, Moves, disk, processVars
  <2>13. ASSUME CleanUp(p) PROVE HashedOf(p)'
    BY <2>13 DEF CleanUp, Moves, disk, processVars
  <2>14. ASSUME Crash(p) PROVE HashedOf(p)'
    BY <2>14 DEF Crash, HasPart, Moves, disk, processVars
  <2>15. HashedOf(p)'
    BY <1>2, <2>1, <2>2, <2>3, <2>4, <2>5, <2>6, <2>7, <2>8, <2>9, <2>10, <2>11, <2>12, <2>13, <2>14 DEF Step
  <2>16. ASSUME NEW q \in Process \ {p} PROVE HashedOf(q)'
    <3>1. OfOthersKept(p) /\ attempt[q] \in 1..MaxAttempts
      BY <1>2, OthersKept
    <3>2. attempt'[q] = attempt[q] /\ \A k \in 1..MaxAttempts : files'[<<q, k>>] = files[<<q, k>>]
      BY <3>1 DEF OfOthersKept
    <3>3. files'[<<q, attempt'[q]>>] = files[<<q, attempt[q]>>]
      BY <3>1, <3>2
    <3> QED
      BY <3>1, <3>3 DEF OfOthersKept
  <2> QED
    BY <2>15, <2>16
<1>3. CASE PowerLoss
  BY <1>3 DEF PowerLoss, processVars, HashedOf
<1>4. CASE Meddle
  BY <1>4 DEF Meddle, processVars
<1> QED
  BY <1>1, <1>2, <1>3, <1>4 DEF DownloadNext

\* Only a published part gets to the final path.
LEMMA StepWhole ==
    ASSUME TypeOK, PartIsHashed, FinalIsSynced, FinalIsWhole, [DownloadNext]_downloadVars PROVE FinalIsSynced' /\ FinalIsWhole'
<1> USE DownloadAssumption DEF TypeOK, PartIsHashed, HashedOf, FinalIsSynced, FinalIsWhole, Publishing, File, Holding, Nothing, Exists, IsPlainFile, IsAsset
<1>1. CASE UNCHANGED downloadVars
  BY <1>1 DEF downloadVars, disk, processVars
<1>2. ASSUME NEW p \in Process, Call(p) \/ Step(p) \/ Crash(p) PROVE FinalIsSynced' /\ FinalIsWhole'
  <2>1. ASSUME Call(p) PROVE FinalIsSynced' /\ FinalIsWhole'
    BY <2>1 DEF Call, Compares, Returns, Moves, disk, processVars
  <2>2. ASSUME Look(p) PROVE FinalIsSynced' /\ FinalIsWhole'
    BY <2>2 DEF Look, Mismatches, Fails, CleansUp, Moves, disk, processVars
  <2>3. ASSUME Read(p) PROVE FinalIsSynced' /\ FinalIsWhole'
    BY <2>3 DEF Read, Matches, Mismatches, Returns, Fails, CleansUp, Moves, disk, processVars
  <2>4. ASSUME Create(p) PROVE FinalIsSynced' /\ FinalIsWhole'
    BY <2>4 DEF Create, NextAttempt, Returns, Moves, disk, processVars
  <2>5. ASSUME Request(p) PROVE FinalIsSynced' /\ FinalIsWhole'
    BY <2>5 DEF Request, Fails, CleansUp, Moves, disk, processVars
  <2>6. ASSUME \E b \in BOOLEAN : Stream(p, b) PROVE FinalIsSynced' /\ FinalIsWhole'
    BY <2>6 DEF Stream, Fails, CleansUp, Moves, disk, processVars
  <2>7. ASSUME BodyEnds(p) PROVE FinalIsSynced' /\ FinalIsWhole'
    BY <2>7 DEF BodyEnds, Verified, SyncAll, Compares, Fails, CleansUp, Moves, disk, processVars
  <2>8. ASSUME CheckLink(p) PROVE FinalIsSynced' /\ FinalIsWhole'
    BY <2>8 DEF CheckLink, Moves, disk, processVars
  <2>9. ASSUME Unlink(p) PROVE FinalIsSynced' /\ FinalIsWhole'
    BY <2>9 DEF Unlink, RemoveFinal, Fails, CleansUp, Moves, disk, processVars
  <2>10. ASSUME Rename(p) PROVE FinalIsSynced' /\ FinalIsWhole'
    <3>1. files[Part(p)] = File(Size, TRUE, TRUE)
      BY <2>10 DEF Rename
    <3> QED
      BY <2>10, <3>1 DEF Rename, Compares
  <2>11. ASSUME LookAgain(p) PROVE FinalIsSynced' /\ FinalIsWhole'
    BY <2>11 DEF LookAgain, Returns, Moves, disk, processVars
  <2>12. ASSUME RemoveSwapped(p) PROVE FinalIsSynced' /\ FinalIsWhole'
    BY <2>12 DEF RemoveSwapped, RemoveFinal, Returns, Moves, disk, processVars
  <2>13. ASSUME CleanUp(p) PROVE FinalIsSynced' /\ FinalIsWhole'
    BY <2>13 DEF CleanUp, Moves, disk, processVars
  <2>14. ASSUME Crash(p) PROVE FinalIsSynced' /\ FinalIsWhole'
    BY <2>14 DEF Crash, HasPart, Moves, disk, processVars
  <2> QED
    BY <1>2, <2>1, <2>2, <2>3, <2>4, <2>5, <2>6, <2>7, <2>8, <2>9, <2>10, <2>11, <2>12, <2>13, <2>14 DEF Step
<1>3. CASE PowerLoss
  BY <1>3 DEF PowerLoss, processVars, Spoilt
<1>4. CASE Meddle
  BY <1>4 DEF Meddle, processVars, Foreign
<1> QED
  BY <1>1, <1>2, <1>3, <1>4 DEF DownloadNext

\* A call returns well when it has seen the asset at the final path.
LEMMA StepVerified ==
    ASSUME TypeOK, PartIsHashed, NobodyRemoves, OkIsVerified, [DownloadNext]_downloadVars PROVE NobodyRemoves' /\ OkIsVerified'
<1> USE DownloadAssumption DEF TypeOK, PartIsHashed, HashedOf, NobodyRemoves, OkIsVerified, Publishing, File, Holding, Nothing, Exists, IsPlainFile, IsAsset
<1>1. CASE UNCHANGED downloadVars
  BY <1>1 DEF downloadVars, disk, processVars
<1>2. ASSUME NEW p \in Process, Call(p) \/ Step(p) \/ Crash(p) PROVE NobodyRemoves' /\ OkIsVerified'
  <2>1. ASSUME Call(p) PROVE NobodyRemoves' /\ OkIsVerified'
    BY <2>1 DEF Call, Compares, Returns, Moves, disk, processVars
  <2>2. ASSUME Look(p) PROVE NobodyRemoves' /\ OkIsVerified'
    BY <2>2 DEF Look, Mismatches, Fails, CleansUp, Moves, disk, processVars
  <2>3. ASSUME Read(p) PROVE NobodyRemoves' /\ OkIsVerified'
    BY <2>3 DEF Read, Matches, Mismatches, Returns, Fails, CleansUp, Moves, disk, processVars
  <2>4. ASSUME Create(p) PROVE NobodyRemoves' /\ OkIsVerified'
    BY <2>4 DEF Create, NextAttempt, Returns, Moves, disk, processVars
  <2>5. ASSUME Request(p) PROVE NobodyRemoves' /\ OkIsVerified'
    BY <2>5 DEF Request, Fails, CleansUp, Moves, disk, processVars
  <2>6. ASSUME \E b \in BOOLEAN : Stream(p, b) PROVE NobodyRemoves' /\ OkIsVerified'
    BY <2>6 DEF Stream, Fails, CleansUp, Moves, disk, processVars
  <2>7. ASSUME BodyEnds(p) PROVE NobodyRemoves' /\ OkIsVerified'
    BY <2>7 DEF BodyEnds, Verified, SyncAll, Compares, Fails, CleansUp, Moves, disk, processVars
  <2>8. ASSUME CheckLink(p) PROVE NobodyRemoves' /\ OkIsVerified'
    BY <2>8 DEF CheckLink, Moves, disk, processVars
  <2>9. ASSUME Unlink(p) PROVE NobodyRemoves' /\ OkIsVerified'
    BY <2>9 DEF Unlink, RemoveFinal, Fails, CleansUp, Moves, disk, processVars
  <2>10. ASSUME Rename(p) PROVE NobodyRemoves' /\ OkIsVerified'
    <3>1. files[Part(p)] = File(Size, TRUE, TRUE)
      BY <2>10 DEF Rename
    <3> QED
      BY <2>10, <3>1 DEF Rename, Compares, Moves
  <2>11. ASSUME LookAgain(p) PROVE NobodyRemoves' /\ OkIsVerified'
    BY <2>11 DEF LookAgain, Returns, Moves, disk, processVars
  <2>12. ASSUME RemoveSwapped(p) PROVE NobodyRemoves' /\ OkIsVerified'
    BY <2>12 DEF RemoveSwapped, RemoveFinal, Returns, Moves, disk, processVars
  <2>13. ASSUME CleanUp(p) PROVE NobodyRemoves' /\ OkIsVerified'
    BY <2>13 DEF CleanUp, Moves, disk, processVars
  <2>14. ASSUME Crash(p) PROVE NobodyRemoves' /\ OkIsVerified'
    BY <2>14 DEF Crash, HasPart, Moves, disk, processVars
  <2> QED
    BY <1>2, <2>1, <2>2, <2>3, <2>4, <2>5, <2>6, <2>7, <2>8, <2>9, <2>10, <2>11, <2>12, <2>13, <2>14 DEF Step
<1>3. CASE PowerLoss
  BY <1>3 DEF PowerLoss, processVars, Gone
<1>4. CASE Meddle
  BY <1>4 DEF Meddle, processVars, Foreign
<1> QED
  BY <1>1, <1>2, <1>3, <1>4 DEF DownloadNext

\* At first nobody downloads.
LEMMA InitHolds == DownloadInit => DownloadInv
<1> SUFFICES ASSUME DownloadInit PROVE DownloadInv
  OBVIOUS
<1> USE DownloadAssumption DEF DownloadInit, Foreign, Name, File, Nothing, Holding
<1>1. TypeOK
  <2>1. files \in [Name -> Entry] /\ final \in Entry
    BY EntriesTyped DEF Exists
  <2>2. leftover \in SUBSET Name
    OBVIOUS
  <2> QED
    BY <2>1, <2>2 DEF TypeOK, Gone
<1>2. PartsAccounted /\ PartsOwned
  BY DEF PartsAccounted, PartsOwned, HasPart, Exists
<1>3. PartIsHashed
  BY DEF PartIsHashed, HashedOf, NothingHashed, Publishing
<1>4. FinalIsSynced /\ FinalIsWhole /\ NobodyRemoves /\ OkIsVerified
  BY DEF FinalIsSynced, FinalIsWhole, NobodyRemoves, OkIsVerified, IsAsset
<1> QED
  BY <1>1, <1>2, <1>3, <1>4 DEF DownloadInv

\* Whatever the processes and the disturbances do, parts are owned and hashed as they
\* should be, and what is at the final path is whole.
THEOREM DownloadInvariantHolds == DownloadSpec => []DownloadInv
<1>1. DownloadInv /\ [DownloadNext]_downloadVars => DownloadInv'
  BY StepTyped, StepAccounted, StepHashed, StepWhole, StepVerified DEF DownloadInv
<1> QED
  BY InitHolds, <1>1, PTL DEF DownloadSpec

\* A call that has returned a path as verified leaves the whole asset there for
\* good, whatever other downloads of it do, fail or crash (ensure, publish).
THEOREM OkStaysVerified == DownloadSpec => []OkIsVerified
<1>1. DownloadInv => OkIsVerified
  BY DEF DownloadInv
<1> QED
  BY DownloadInvariantHolds, <1>1, PTL

\* No crash and no loss of power leaves a torn download at the final path: the
\* part is synced and compared with its checksum before the rename.
THEOREM FinalStaysWhole == DownloadSpec => []FinalIsWhole
<1>1. DownloadInv => FinalIsWhole
  BY DEF DownloadInv
<1> QED
  BY DownloadInvariantHolds, <1>1, PTL

\* There is no part but those of running calls and those that nobody can remove.
THEOREM PartsAreAccounted == DownloadSpec => []PartsAccounted
<1>1. DownloadInv => PartsAccounted
  BY DEF DownloadInv
<1> QED
  BY DownloadInvariantHolds, <1>1, PTL

-----------------------------------------------------------------------------
\* Local drivers.
LocalTypes ==
    /\ offline \in BOOLEAN /\ closed \in BOOLEAN /\ received \in BOOLEAN
    /\ at \in {"start", "run", "decode", "drain", "done", "broken", "ended"}
    /\ queue \in Seq(Nat) /\ utterance \in Nat /\ nextIndex \in Nat
    /\ finals \in Seq([index : Nat, utterance : Nat])
    /\ ending \in {"none", "ok", "error"}

\* The segments that wait are those of the last utterances, in order, and the
\* finals are those of all before them.
WaitInOrder == \A k \in 1..Len(queue) : queue[k] = Len(finals) + k
FinalsCount ==
    /\ nextIndex = Len(finals)
    /\ Len(finals) + Len(queue) + 1 = utterance
    /\ \A k \in 1..Len(finals) : finals[k] = [index |-> k - 1, utterance |-> k]

\* Only the streaming driver decodes, only the offline one has a recogniser that
\* hears nothing between the segments, and they come to an end with nothing left.
OneDriver ==
    /\ offline => at # "decode" /\ hypothesis = Blank
    /\ ~offline => at # "drain" /\ queue = <<>>
    /\ ~offline /\ ~received => hypothesis = Blank
    /\ at = "done" => queue = <<>> /\ hypothesis = Blank
    /\ ending = "ok" => at = "ended" /\ queue = <<>> /\ hypothesis = Blank

\* The host sees the text that was shown last, and the driver forgets it with the
\* utterance.
ShownLast ==
    Open => /\ seen = last
            /\ offline => seen = Blank
            /\ at \in {"start", "run"} => seen = hypothesis

LocalInv == LocalTypes /\ WaitInOrder /\ FinalsCount /\ OneDriver /\ ShownLast
-----------------------------------------------------------------------------
\* The voice detector's segments are numbered on.
LEMMA CutsOn ==
    ASSUME LocalTypes, WaitInOrder, FinalsCount, NEW n \in Nat,
           queue' = queue \o [k \in 1..n |-> utterance + k - 1], finals' = finals
    PROVE  queue' \in Seq(Nat) /\ Len(queue') = Len(queue) + n /\ WaitInOrder'
<1> DEFINE new == [k \in 1..n |-> utterance + k - 1]
<1>1. /\ queue \in Seq(Nat) /\ Len(queue) \in Nat /\ Len(finals) \in Nat
      /\ utterance = Len(finals) + Len(queue) + 1
  BY DEF LocalTypes, FinalsCount
<1>2. new \in Seq(Nat) /\ Len(new) = n /\ \A k \in 1..n : new[k] = utterance + k - 1
  BY <1>1
<1>3. queue' = queue \o new
  OBVIOUS
<1> HIDE DEF new
<1>4. /\ queue' \in Seq(Nat) /\ Len(queue') = Len(queue) + n
      /\ \A k \in 1..Len(queue) + n :
           queue'[k] = IF k <= Len(queue) THEN queue[k] ELSE new[k - Len(queue)]
  BY ONLY <1>1, <1>2, <1>3, ConcatProperties, n \in Nat
<1>5. ASSUME NEW k \in 1..Len(queue') PROVE queue'[k] = Len(finals') + k
  <2>1. CASE k <= Len(queue)
    <3>1. k \in 1..Len(queue) /\ queue'[k] = queue[k]
      BY ONLY <1>1, <1>4, <1>5, <2>1, n \in Nat
    <3> QED
      BY <3>1 DEF WaitInOrder
  <2>2. CASE k > Len(queue)
    <3>1. k - Len(queue) \in 1..n
      BY <1>1, <1>4, <2>2
    <3>2. queue'[k] = utterance + (k - Len(queue)) - 1
      BY <1>1, <1>2, <1>4, <2>2, <3>1
    <3> QED
      BY <1>1, <1>4, <3>2
  <2> QED
    BY <1>1, <1>4, <1>5, <2>1, <2>2
<1> QED
  BY <1>4, <1>5 DEF WaitInOrder

\* The final of the first utterance that is due continues the finals.
LEMMA FinalIsNext ==
    ASSUME LocalTypes, FinalsCount, Final(Len(finals) + 1)
    PROVE  /\ finals' \in Seq([index : Nat, utterance : Nat]) /\ Len(finals') = Len(finals) + 1
           /\ \A k \in 1..Len(finals') : finals'[k] = [index |-> k - 1, utterance |-> k]
<1> DEFINE new == [index |-> nextIndex, utterance |-> Len(finals) + 1]
<1>1. finals \in Seq([index : Nat, utterance : Nat]) /\ Len(finals) \in Nat /\ nextIndex = Len(finals)
  BY DEF LocalTypes, FinalsCount
<1>2. new \in [index : Nat, utterance : Nat] /\ finals' = Append(finals, new)
  BY <1>1 DEF Final
<1>3. new = [index |-> (Len(finals) + 1) - 1, utterance |-> Len(finals) + 1]
  BY <1>1
<1> HIDE DEF new
<1>4. /\ finals' \in Seq([index : Nat, utterance : Nat]) /\ Len(finals') = Len(finals) + 1
      /\ \A k \in 1..Len(finals) : finals'[k] = finals[k]
      /\ finals'[Len(finals) + 1] = new
  BY ONLY <1>1, <1>2, AppendProperties
<1>5. ASSUME NEW k \in 1..Len(finals') PROVE finals'[k] = [index |-> k - 1, utterance |-> k]
  <2>1. k \in 1..Len(finals) \/ k = Len(finals) + 1
    BY <1>1, <1>4
  <2>2. \A j \in 1..Len(finals) : finals[j] = [index |-> j - 1, utterance |-> j]
    BY DEF FinalsCount
  <2> QED
    BY ONLY <1>3, <1>4, <2>1, <2>2
<1> QED
  BY <1>4, <1>5

\* An offline segment that has its final leaves the others in order.
LEMMA TakesFirst ==
    ASSUME LocalTypes, WaitInOrder, FinalsCount, queue # <<>>,
           Final(Head(queue)), queue' = Popped, utterance' = utterance, nextIndex' = nextIndex + 1
    PROVE  queue' \in Seq(Nat) /\ finals' \in Seq([index : Nat, utterance : Nat])
           /\ WaitInOrder' /\ FinalsCount'
<1>1. queue \in Seq(Nat) /\ Len(queue) \in Nat /\ Len(queue) > 0 /\ Len(finals) \in Nat
  BY EmptySeq DEF LocalTypes
<1>2. Head(queue) = Len(finals) + 1
  BY <1>1 DEF WaitInOrder
<1>3. /\ finals' \in Seq([index : Nat, utterance : Nat]) /\ Len(finals') = Len(finals) + 1
      /\ \A k \in 1..Len(finals') : finals'[k] = [index |-> k - 1, utterance |-> k]
  BY <1>2, FinalIsNext
<1>4. queue' \in Seq(Nat) /\ Len(queue') = Len(queue) - 1
      /\ \A k \in 1..Len(queue) - 1 : queue'[k] = queue[k + 1]
  BY <1>1, HeadTailProperties DEF Popped
<1>5. ASSUME NEW k \in 1..Len(queue') PROVE queue'[k] = Len(finals') + k
  <2>1. k \in 1..(Len(queue) - 1) /\ k + 1 \in 1..Len(queue) /\ k \in Nat
    BY ONLY <1>1, <1>4, k \in 1..Len(queue')
  <2>2. queue'[k] = queue[k + 1] /\ queue[k + 1] = Len(finals) + (k + 1)
    BY <1>4, <2>1 DEF WaitInOrder
  <2> QED
    BY ONLY <1>1, <1>3, <2>1, <2>2
<1>6. FinalsCount'
  BY <1>1, <1>3, <1>4 DEF FinalsCount
<1> QED
  BY <1>3, <1>4, <1>5, <1>6 DEF WaitInOrder

-----------------------------------------------------------------------------
\* At first nothing has been heard.
LEMMA InitLocal == LocalInit => LocalInv
<1> SUFFICES ASSUME LocalInit PROVE LocalInv
  OBVIOUS
<1>1. <<>> \in Seq(Nat) /\ <<>> \in Seq([index : Nat, utterance : Nat])
  BY EmptySeq
<1> QED
  <2>1. LocalTypes /\ OneDriver /\ ShownLast
    BY <1>1 DEF LocalInit, LocalTypes, OneDriver, ShownLast, Open
  <2>2. queue = <<>> /\ finals = <<>> /\ nextIndex = 0 /\ utterance = 1
    BY DEF LocalInit
  <2>3. Len(queue) = 0 /\ Len(finals) = 0
    BY <2>2
  <2>4. WaitInOrder /\ FinalsCount
    BY <2>2, <2>3 DEF WaitInOrder, FinalsCount
  <2> QED
    BY <2>1, <2>4 DEF LocalInv

\* What is neither finals nor segments keeps both.
LEMMA OrderKept ==
    ASSUME LocalInv, UNCHANGED <<queue, utterance, nextIndex, finals>>
    PROVE  /\ queue' \in Seq(Nat) /\ utterance' \in Nat /\ nextIndex' \in Nat
           /\ finals' \in Seq([index : Nat, utterance : Nat]) /\ WaitInOrder' /\ FinalsCount'
BY DEF LocalInv, LocalTypes, WaitInOrder, FinalsCount

\* A streaming step keeps the invariant of the local drivers.
LEMMA StepStreaming ==
    ASSUME LocalInv, PushStreaming \/ FinishStreaming \/ DecodeStep PROVE LocalInv'
<1>1. UNCHANGED <<queue, utterance, nextIndex, finals>>
  BY DEF PushStreaming, FinishStreaming, DecodeStep, Hears, recogniserVars, localStateVars, localSessionVars
<1>2. /\ LocalTypes' /\ WaitInOrder' /\ FinalsCount'
  BY <1>1, OrderKept DEF LocalInv, LocalTypes, PushStreaming, FinishStreaming, DecodeStep, Hears, To,
     Unsettled, recogniserVars, localStateVars, localSessionVars
<1>3. OneDriver'
  BY DEF LocalInv, LocalTypes, OneDriver, PushStreaming, FinishStreaming, DecodeStep, Hears, To,
     Unsettled, Open, recogniserVars, localStateVars, localSessionVars
<1>4. ShownLast'
  BY DEF LocalInv, LocalTypes, OneDriver, ShownLast, PushStreaming, FinishStreaming, DecodeStep, Hears, To,
     Unsettled, Open, recogniserVars, localStateVars, localSessionVars
<1> QED
  BY <1>2, <1>3, <1>4 DEF LocalInv

\* So does a result,
LEMMA StepResult ==
    ASSUME LocalInv, ResultStep PROVE LocalInv'
<1> USE DEF LocalInv, ResultStep
<1>1. ~offline /\ queue = <<>> /\ queue' = queue /\ offline' = offline /\ at = "decode"
  BY DEF OneDriver
<1>2. CASE Open /\ StreamingFinal /\ To(IF closed THEN "done" ELSE "run")
  <2>1. Len(finals) \in Nat /\ Len(queue) = 0 /\ utterance = Len(finals) + 1
    BY <1>1 DEF LocalTypes, FinalsCount
  <2>2. /\ finals' \in Seq([index : Nat, utterance : Nat]) /\ Len(finals') = Len(finals) + 1
        /\ \A k \in 1..Len(finals') : finals'[k] = [index |-> k - 1, utterance |-> k]
    BY <1>2, <2>1, FinalIsNext DEF StreamingFinal
  <2>3. WaitInOrder' /\ FinalsCount'
    BY <1>1, <1>2, <2>1, <2>2 DEF WaitInOrder, FinalsCount, StreamingFinal
  <2>4. LocalTypes'
    BY <1>1, <1>2, <2>1, <2>2 DEF LocalTypes, StreamingFinal, To, Open
  <2>5. OneDriver' /\ ShownLast'
    BY <1>1, <1>2 DEF OneDriver, ShownLast, StreamingFinal, To, Open, Cleared
  <2> QED
    BY <2>3, <2>4, <2>5
<1>3. CASE Open /\ StreamingPartial /\ To(IF closed THEN "done" ELSE "run")
  <2>1. UNCHANGED <<queue, utterance, nextIndex, finals>> /\ at' = "run"
    BY <1>1, <1>3 DEF StreamingPartial, To
  <2>2. OneDriver' /\ ShownLast'
    BY <1>1, <1>3, <2>1 DEF OneDriver, ShownLast, StreamingPartial, Open
  <2> QED
    BY <1>3, <2>1, <2>2, OrderKept DEF LocalTypes
<1>4. CASE To("broken") /\ UNCHANGED <<seen, finals, last, nextIndex, utterance, hypothesis, endpoint>>
  <2>1. OneDriver' /\ ShownLast'
    BY <1>1, <1>4 DEF OneDriver, ShownLast, To, Open
  <2> QED
    BY <1>1, <1>4, <2>1, OrderKept DEF LocalTypes, To
<1> QED
  BY <1>2, <1>3, <1>4

\* ... a step of the offline driver,
LEMMA StepOffline ==
    ASSUME LocalInv, PushOffline \/ FinishOffline \/ TakeSegment PROVE LocalInv'
<1> USE DEF LocalInv
<1>1. offline /\ offline' = offline /\ UNCHANGED <<hypothesis, last, seen, received, ending>>
  BY DEF OneDriver, PushOffline, FinishOffline, TakeSegment, localStateVars, localSessionVars
<1>2. OneDriver' /\ ShownLast' 
  BY <1>1 DEF LocalTypes, OneDriver, ShownLast, PushOffline, FinishOffline, TakeSegment, To, Unsettled, Open
<1>3. CASE PushOffline \/ FinishOffline
  <2>1. PICK n \in Nat : /\ queue' = queue \o [k \in 1..n |-> utterance + k - 1]
                         /\ utterance' = utterance + n
    <3>1. 0..2 \subseteq Nat /\ 0..1 \subseteq Nat
      OBVIOUS
    <3>2. CASE PushOffline
      BY <3>1, <3>2 DEF PushOffline
    <3>3. CASE FinishOffline
      BY <3>1, <3>3 DEF FinishOffline
    <3> QED
      BY <1>3, <3>2, <3>3
  <2>2. UNCHANGED <<nextIndex, finals>>
    BY <1>3 DEF PushOffline, FinishOffline, localStateVars, localSessionVars
  <2>3. queue' \in Seq(Nat) /\ Len(queue') = Len(queue) + n /\ WaitInOrder'
    BY <2>1, <2>2, CutsOn
  <2>4. FinalsCount'
    <3>1. Len(finals) \in Nat /\ Len(queue) \in Nat /\ utterance \in Nat
      BY DEF LocalTypes
    <3>2. Len(finals) + Len(queue) + 1 = utterance
      BY DEF FinalsCount
    <3>3. utterance' = utterance + n /\ Len(queue') = Len(queue) + n
      BY <2>1, <2>3
    <3>4. Len(finals) + Len(queue') + 1 = utterance'
      BY ONLY <3>1, <3>2, <3>3, n \in Nat
    <3> QED
      BY <2>2, <3>4 DEF FinalsCount
  <2>5. LocalTypes'
    <3>1. utterance' \in Nat
      BY <2>1 DEF LocalTypes
    <3>2. closed' \in BOOLEAN /\ at' \in {"drain", "broken"}
      BY <1>3 DEF LocalTypes, PushOffline, FinishOffline, To, Unsettled
    <3> QED
      BY <1>1, <2>2, <2>3, <3>1, <3>2 DEF LocalTypes
  <2> QED
    BY <1>2, <2>3, <2>4, <2>5
<1>4. CASE TakeSegment
  <2>1. CASE Final(Head(queue)) /\ nextIndex' = nextIndex + 1 /\ queue' = Popped /\ UNCHANGED at
    <3>1. queue # <<>> /\ utterance' = utterance
      BY <1>4 DEF TakeSegment
    <3>2. queue' \in Seq(Nat) /\ finals' \in Seq([index : Nat, utterance : Nat])
          /\ WaitInOrder' /\ FinalsCount'
      BY <2>1, <3>1, TakesFirst
    <3> QED
      BY <1>1, <1>2, <1>4, <2>1, <3>1, <3>2 DEF LocalTypes, TakeSegment
  <2>2. CASE To("broken") /\ UNCHANGED <<finals, queue, nextIndex>>
    BY <1>1, <1>2, <1>4, <2>2, OrderKept DEF LocalTypes, TakeSegment, To
  <2> QED
    BY <1>4, <2>1, <2>2 DEF TakeSegment
<1> QED
  BY <1>3, <1>4

\* ... and every other step.
LEMMA StepOther ==
    ASSUME LocalInv, StartLocal \/ AllDrained \/ LocalSettles \/ HostSettles \/ UNCHANGED localVars
    PROVE  LocalInv'
<1> USE DEF recogniserVars, localStateVars, localSessionVars
<1>1. UNCHANGED <<queue, utterance, nextIndex, finals>>
  BY DEF StartLocal, AllDrained, LocalSettles, HostSettles, Ends, localVars
<1>2. LocalTypes' /\ WaitInOrder' /\ FinalsCount'
  BY <1>1, OrderKept DEF LocalInv, LocalTypes, StartLocal, AllDrained, LocalSettles, HostSettles, Ends,
     To, Unsettled, Open, localVars
<1>3. OneDriver'
  BY <1>1 DEF LocalInv, LocalTypes, OneDriver, StartLocal, AllDrained, LocalSettles, HostSettles, Ends,
     To, Unsettled, Open, localVars
<1>4. ShownLast'
  BY <1>1 DEF LocalInv, LocalTypes, OneDriver, ShownLast, StartLocal, AllDrained, LocalSettles, HostSettles, Ends,
     To, Unsettled, Open, localVars
<1> QED
  BY <1>2, <1>3, <1>4 DEF LocalInv

\* The inductive invariant holds in every state of the local drivers.
THEOREM LocalInvariantHolds == LocalSpec => []LocalInv
<1>1. LocalInv /\ [LocalNext]_localVars => LocalInv'
  BY StepStreaming, StepResult, StepOffline, StepOther DEF LocalNext
<1> QED
  BY <1>1, InitLocal, PTL DEF LocalSpec

\* For any texts and any number of chunks and segments: each utterance gets its
\* final once and in order, between two calls the host sees what has been heard of
\* the present one, and a session that completes has left nothing out.
THEOREM UtterancesAreConfirmed == LocalSpec => []LocalTranscript
<1>1. LocalInv => LocalTranscript
  <2> SUFFICES ASSUME LocalInv PROVE LocalTranscript
    OBVIOUS
  <2>1. finals \in Seq([index : Nat, utterance : Nat]) /\ DOMAIN finals = 1..Len(finals)
    BY DEF LocalInv, LocalTypes
  <2>2. \A k \in DOMAIN finals : finals[k] = [index |-> k - 1, utterance |-> k]
    BY ONLY <2>1, LocalInv DEF LocalInv, FinalsCount
  <2>3. at = "run" /\ Open => seen = hypothesis
    BY DEF LocalInv, ShownLast
  <2>4. ending = "ok" => queue = <<>> /\ hypothesis = Blank
    BY DEF LocalInv, OneDriver
  <2>5. queue = <<>> => Len(finals) = utterance - 1
    <3>1. Len(finals) \in Nat /\ (queue = <<>> => Len(queue) = 0)
      BY <2>1
    <3> QED
      BY <3>1 DEF LocalInv, FinalsCount
  <2> QED
    BY <2>2, <2>3, <2>4, <2>5 DEF LocalTranscript
<1> QED
  BY <1>1, LocalInvariantHolds, PTL
-----------------------------------------------------------------------------
\* Sequences, numbers and sets of them.
\* A set of natural numbers has a least one.
LEMMA LeastNumber ==
    ASSUME NEW T \in SUBSET Nat, T # {} PROVE \E k \in T : \A j \in T : k <= j
<1> DEFINE R == OpToRel(<, Nat)
<1>1. \A i, j \in Nat : i < j => <<i, j>> \in R
  BY DEF OpToRel
<1>2. IsWellFoundedOn(R, Nat)
  BY NatLessThanWellFounded
<1> HIDE DEF R
<1>3. PICK k \in T : \A j \in T : ~(<<j, k>> \in R)
  BY <1>2, WFMin
<1>4. ASSUME NEW j \in T PROVE k <= j
  <2>1. j \in Nat /\ k \in Nat /\ ~(j < k)
    BY <1>1, <1>3
  <2> QED
    BY <2>1
<1> QED
  BY <1>3, <1>4

\* f is the flattening of each beginning of q: the recursion of FlattenSeq.
Flattens(f, q, n) == f = [i \in 1..n |-> IF i = 1 THEN q[i] ELSE f[i - 1] \o q[i]]

\* There is such a function for every sequence, by induction on its length.
LEMMA FlatteningExists ==
    ASSUME NEW n \in Nat, NEW q PROVE \E f : Flattens(f, q, n)
<1> DEFINE Bad == {k \in Nat : ~\E f : Flattens(f, q, k)}
<1>1. SUFFICES ASSUME Bad # {} PROVE FALSE
  OBVIOUS
<1>2. PICK m \in Bad : \A j \in Bad : m <= j
  BY <1>1, LeastNumber
<1>3. PICK g : m > 0 => Flattens(g, q, m - 1)
  <2>1. m \in Nat /\ (m > 0 => m - 1 \in Nat /\ ~(m <= m - 1))
    BY <1>2
  <2>2. m > 0 => m - 1 \notin Bad
    BY <1>2, <2>1
  <2> QED
    BY <2>1, <2>2
<1> DEFINE Next(h, i) == IF i = 1 THEN q[i] ELSE h[i - 1] \o q[i]
           f == [i \in 1..m |-> Next(g, i)]
<1>4. ASSUME NEW i \in 1..m, i # 1 PROVE g[i - 1] = f[i - 1]
  <2>1. m > 0 /\ i - 1 \in 1..(m - 1) /\ i - 1 \in 1..m
    BY <1>2, <1>4
  <2>2. g = [j \in 1..(m - 1) |-> Next(g, j)]
    BY <1>3, <2>1 DEF Flattens
  <2> HIDE DEF Next
  <2> QED
    BY <2>1, <2>2
<1>5. \A i \in 1..m : Next(g, i) = Next(f, i)
  <2> SUFFICES ASSUME NEW i \in 1..m, i # 1 PROVE Next(g, i) = Next(f, i)
    OBVIOUS
  <2>1. g[i - 1] = f[i - 1]
    BY <1>4
  <2> HIDE DEF f
  <2> QED
    BY <2>1
<1>6. f = [i \in 1..m |-> Next(f, i)]
  <2> DEFINE e == f
  <2>1. \A i \in 1..m : Next(g, i) = Next(e, i)
    BY <1>5
  <2> HIDE DEF Next, e
  <2>2. [i \in 1..m |-> Next(g, i)] = [i \in 1..m |-> Next(e, i)]
    BY <2>1
  <2> QED
    BY <2>2 DEF e
<1> HIDE DEF f
<1>7. Flattens(f, q, m)
  BY <1>6 DEF Flattens
<1> QED
  BY <1>2, <1>7

\* r[k] is the flattening of the first k elements of q.
Flattening(r, S, q) ==
    /\ r[0] = <<>> /\ \A k \in 0..Len(q) : r[k] \in Seq(S)
    /\ \A k \in 1..Len(q) : r[k] = r[k - 1] \o q[k]

\* The last of them is what FlattenSeq makes of q.
LEMMA FlattenRuns ==
    ASSUME NEW S, NEW q \in Seq(Seq(S))
    PROVE  \E r : Flattening(r, S, q) /\ FlattenSeq(q) = r[Len(q)]
<1> DEFINE n == Len(q)
           f == CHOOSE f : Flattens(f, q, n)
           r == [k \in 0..n |-> IF k = 0 THEN <<>> ELSE f[k]]
<1>1. n \in Nat /\ DOMAIN q = 1..n /\ \A k \in 1..n : q[k] \in Seq(S)
  OBVIOUS
<1>2. Flattens(f, q, n)
  BY <1>1, FlatteningExists
<1>3. FlattenSeq(q) = IF n = 0 THEN q ELSE f[n]
  BY ONLY DEF FlattenSeq, Flattens
<1> HIDE DEF f
<1>4. ASSUME NEW k \in 1..n PROVE r[k] = (IF k = 1 THEN q[1] ELSE r[k - 1] \o q[k])
  <2> DEFINE Next(h, i) == IF i = 1 THEN q[i] ELSE h[i - 1] \o q[i]
  <2>1. f = [i \in 1..n |-> Next(f, i)]
    BY <1>2 DEF Flattens
  <2> HIDE DEF Next
  <2>2. f[k] = Next(f, k)
    BY ONLY <2>1, k \in 1..n
  <2>a. r[k] = f[k]
    BY <1>1
  <2>3. k # 1 => r[k - 1] = f[k - 1]
    BY <1>1
  <2> HIDE DEF r
  <2> QED
    BY <2>2, <2>a, <2>3 DEF Next
<1>5. r[0] = <<>> /\ r[n] = FlattenSeq(q)
  <2>1. n = 0 => q = <<>>
    OBVIOUS
  <2> QED
    BY <1>1, <1>3, <2>1
<1> HIDE DEF r
<1>6. \A k \in 1..n : r[k - 1] \in Seq(S) => r[k] = r[k - 1] \o q[k] /\ r[k] \in Seq(S)
  <2> SUFFICES ASSUME NEW k \in 1..n, r[k - 1] \in Seq(S)
               PROVE  r[k] = r[k - 1] \o q[k] /\ r[k] \in Seq(S)
    OBVIOUS
  <2>1. q[k] \in Seq(S)
    BY <1>1
  <2>2. r[k] = r[k - 1] \o q[k]
    <3>1. CASE k = 1
      <4>1. r[k - 1] = <<>> /\ r[k] = q[k] /\ <<>> \o q[k] = q[k]
        BY <1>4, <1>5, <2>1, <3>1, ConcatEmptySeq
      <4> QED
        BY <4>1
    <3>2. CASE k # 1
      BY <1>4, <3>2
    <3> QED
      BY <3>1, <3>2
  <2>3. r[k - 1] \o q[k] \in Seq(S)
    BY <2>1, ConcatProperties
  <2> QED
    BY <2>2, <2>3
<1>7. \A k \in 0..n : r[k] \in Seq(S)
  <2> DEFINE Bad == {k \in 0..n : r[k] \notin Seq(S)}
  <2>1. SUFFICES ASSUME Bad # {} PROVE FALSE
    OBVIOUS
  <2>0. Bad \in SUBSET Nat
    BY <1>1
  <2>2. PICK m \in Bad : \A j \in Bad : m <= j
    BY ONLY <2>0, <2>1, LeastNumber
  <2>3. m # 0
    BY <1>5, <2>2, EmptySeq
  <2>4. m \in 1..n /\ m - 1 \in 0..n /\ ~(m <= m - 1)
    BY <1>1, <2>2, <2>3
  <2>5. r[m - 1] \in Seq(S)
    BY <2>2, <2>4
  <2> QED
    BY <1>6, <2>2, <2>4, <2>5
<1>8. \A k \in 1..n : r[k] = r[k - 1] \o q[k]
  <2>1. \A k \in 1..n : k - 1 \in 0..n
    BY <1>1
  <2> QED
    BY <1>6, <1>7, <2>1
<1> QED
  BY <1>5, <1>7, <1>8 DEF Flattening

\* What a sequence of sequences is flattened to, with one more at its end ...
LEMMA FlattenAppend ==
    ASSUME NEW S, NEW q \in Seq(Seq(S)), NEW e \in Seq(S)
    PROVE  FlattenSeq(Append(q, e)) = FlattenSeq(q) \o e /\ FlattenSeq(q) \in Seq(S)
<1> DEFINE p == Append(q, e)
           n == Len(q)
<1>1. p \in Seq(Seq(S)) /\ Len(p) = n + 1 /\ p[n + 1] = e /\ n \in Nat /\ \A k \in 1..n : p[k] = q[k]
  OBVIOUS
<1> HIDE DEF p
<1>2. PICK r : Flattening(r, S, q) /\ FlattenSeq(q) = r[n]
  BY FlattenRuns
<1>3. PICK t : Flattening(t, S, p) /\ FlattenSeq(p) = t[Len(p)]
  BY <1>1, FlattenRuns
<1>4. \A k \in 0..n : t[k] = r[k]
  <2> DEFINE Bad == {k \in 0..n : t[k] # r[k]}
  <2>1. SUFFICES ASSUME Bad # {} PROVE FALSE
    OBVIOUS
  <2>0. Bad \in SUBSET Nat
    BY <1>1
  <2>2. PICK m \in Bad : \A j \in Bad : m <= j
    BY ONLY <2>0, <2>1, LeastNumber
  <2>3. m # 0
    BY <1>2, <1>3, <2>2 DEF Flattening
  <2>4. m \in 1..n /\ m \in 1..Len(p) /\ m - 1 \in 0..n /\ ~(m <= m - 1)
    BY <1>1, <2>2, <2>3
  <2>5. t[m - 1] = r[m - 1] /\ p[m] = q[m]
    BY <1>1, <2>2, <2>4
  <2>6. t[m] = t[m - 1] \o p[m] /\ r[m] = r[m - 1] \o q[m]
    BY <1>2, <1>3, <2>4 DEF Flattening
  <2> QED
    BY <2>2, <2>5, <2>6
<1>5. t[n + 1] = t[n] \o e /\ t[n] = r[n]
  <2>1. n + 1 \in 1..Len(p) /\ (n + 1) - 1 = n /\ n \in 0..n
    BY <1>1
  <2>2. t[n + 1] = t[(n + 1) - 1] \o p[n + 1]
    BY <1>3, <2>1 DEF Flattening
  <2> QED
    BY <1>1, <1>4, <2>1, <2>2
<1>6. r[n] \in Seq(S)
  <2>1. n \in 0..Len(q)
    BY <1>1
  <2>2. \A k \in 0..Len(q) : r[k] \in Seq(S)
    BY ONLY <1>2 DEF Flattening
  <2> QED
    BY ONLY <2>1, <2>2
<1> QED
  BY <1>1, <1>2, <1>3, <1>5, <1>6 DEF p

\* ... and with the first one taken away.
LEMMA FlattenTail ==
    ASSUME NEW S, NEW q \in Seq(Seq(S)), q # <<>>
    PROVE  FlattenSeq(q) = Head(q) \o FlattenSeq(Tail(q))
<1> DEFINE p == Tail(q)
           e == Head(q)
           n == Len(p)
<1>1. p \in Seq(Seq(S)) /\ e \in Seq(S) /\ n \in Nat /\ Len(q) = n + 1
      /\ e = q[1] /\ \A k \in 1..n : p[k] = q[k + 1] /\ p[k] \in Seq(S)
  OBVIOUS
<1> HIDE DEF p, e
<1>0. e \in Seq(S)
  BY <1>1
<1>2. PICK r : Flattening(r, S, q) /\ FlattenSeq(q) = r[n + 1]
  BY <1>1, FlattenRuns
<1>3. PICK t : Flattening(t, S, p) /\ FlattenSeq(p) = t[n]
  BY <1>1, FlattenRuns
<1> DEFINE Whole(k) == e \o t[k]
<1> HIDE DEF Whole
<1>4. \A k \in 0..n : r[k + 1] = Whole(k)
  <2> DEFINE Bad == {k \in 0..n : r[k + 1] # Whole(k)}
  <2>1. SUFFICES ASSUME Bad # {} PROVE FALSE
    OBVIOUS
  <2>0. Bad \in SUBSET Nat
    BY <1>1
  <2>2. PICK m \in Bad : \A j \in Bad : m <= j
    BY ONLY <2>0, <2>1, LeastNumber
  <2>3. m # 0
    <3>1. r[0] = <<>> /\ t[0] = <<>>
      BY <1>2, <1>3 DEF Flattening
    <3>2. r[1] = r[0] \o e
      <4>1. 1 \in 1..Len(q) /\ 1 - 1 = 0
        BY <1>1
      <4>2. r[1] = r[1 - 1] \o q[1]
        BY <1>2, <4>1 DEF Flattening
      <4> QED
        BY <1>1, <4>1, <4>2
    <3>3. <<>> \o e = e /\ e \o <<>> = e
      BY <1>1, ConcatEmptySeq
    <3>4. r[1] = e \o t[0] /\ 0 + 1 = 1
      BY <3>1, <3>2, <3>3
    <3>5. r[1] = Whole(0)
      BY <3>4 DEF Whole
    <3> QED
      BY <2>2, <3>4, <3>5
  <2>4. m \in 1..n /\ m + 1 \in 1..Len(q) /\ m - 1 \in 0..n /\ ~(m <= m - 1) /\ (m + 1) - 1 = (m - 1) + 1
    BY <1>1, <2>2, <2>3
  <2>5. r[(m - 1) + 1] = Whole(m - 1)
    BY <2>2, <2>4
  <2>a. r[(m - 1) + 1] = e \o t[m - 1] /\ p[m] = q[m + 1] /\ p[m] \in Seq(S)
    BY <1>1, <2>4, <2>5 DEF Whole
  <2>6. t[m] = t[m - 1] \o p[m] /\ t[m - 1] \in Seq(S)
    BY <1>3, <2>4 DEF Flattening
  <2>7. r[m + 1] = r[(m + 1) - 1] \o q[m + 1]
    BY <1>2, <2>4 DEF Flattening
  <2>8. (e \o t[m - 1]) \o p[m] = e \o (t[m - 1] \o p[m])
    <3> DEFINE a == t[m - 1]
               b == p[m]
    <3>1. (a \in Seq(S)) /\ (b \in Seq(S))
      BY <2>6, <2>a
    <3> HIDE DEF a, b
    <3>2. (e \o a) \o b = e \o (a \o b)
      BY ONLY <1>0, <3>1, ConcatAssociative
    <3> QED
      BY <3>2, Zenon DEF a, b
  <2>9. r[m + 1] = (e \o t[m - 1]) \o p[m]
    BY <2>4, <2>a, <2>7, Zenon
  <2>10. r[m + 1] = e \o t[m]
    BY <2>6, <2>8, <2>9, Zenon
  <2>11. r[m + 1] = Whole(m)
    BY <2>10 DEF Whole
  <2> QED
    BY <2>2, <2>11
<1>5. r[n + 1] = e \o t[n]
  <2>1. r[n + 1] = Whole(n)
    BY <1>1, <1>4
  <2> QED
    BY <2>1 DEF Whole
<1> QED
  BY <1>2, <1>3, <1>5 DEF p, e

\* What is flattened is a sequence of the same elements.
LEMMA FlattenTyped ==
    ASSUME NEW S, NEW q \in Seq(Seq(S)) PROVE FlattenSeq(q) \in Seq(S)
<1>1. <<>> \in Seq(S)
  BY EmptySeq
<1> QED
  BY <1>1, FlattenAppend

\* Concatenation is associative.
LEMMA Regroup ==
    \A q, h, t \in Seq(Nat) : (q \o h) \o t = q \o (h \o t)
<1> SUFFICES ASSUME NEW q \in Seq(Nat), NEW h \in Seq(Nat), NEW t \in Seq(Nat)
             PROVE  (q \o h) \o t = q \o (h \o t)
  OBVIOUS
<1> QED
  BY ConcatAssociative

\* An element between two sequences may count to either.
LEMMA MovesOver ==
    ASSUME NEW q \in Seq(Nat), NEW h \in Seq(Nat), NEW e \in Nat, NEW t \in Seq(Nat)
    PROVE  (q \o Append(h, e)) \o t = (q \o h) \o (<<e>> \o t)
<1>1. Append(h, e) = h \o <<e>> /\ <<e>> \in Seq(Nat)
  BY AppendIsConcat
<1>2. q \o h \in Seq(Nat)
  BY ConcatProperties
<1>3. q \o (h \o <<e>>) = (q \o h) \o <<e>>
  BY ONLY <1>1, q \in Seq(Nat), h \in Seq(Nat), ConcatAssociative
<1>4. ((q \o h) \o <<e>>) \o t = (q \o h) \o (<<e>> \o t)
  <2> DEFINE p == q \o h
             u == <<e>>
  <2>1. p \in Seq(Nat) /\ u \in Seq(Nat)
    BY <1>1, <1>2
  <2> HIDE DEF p, u
  <2>2. (p \o u) \o t = p \o (u \o t)
    BY <2>1, Regroup
  <2> QED
    BY <2>2, Zenon DEF p, u
<1> QED
  BY <1>1, <1>3, <1>4, Zenon

\* The highest of finitely many numbers.
LEMMA HighestOf ==
    ASSUME NEW n \in Nat, NEW T \in SUBSET (0..n), T # {}
    PROVE  Max(T) \in T /\ \A k \in T : k <= Max(T)
<1> DEFINE above == {n - k : k \in T}
<1>0. \A k \in T : k \in Int /\ n - k \in Nat
  OBVIOUS
<1>1. above # {} /\ above \subseteq Nat
  BY <1>0
<1>2. PICK d \in above : \A e \in above : d <= e
  BY <1>1, LeastNumber
<1>3. PICK k \in T : d = n - k
  BY <1>2
<1>4. ASSUME NEW j \in T PROVE k >= j
  <2>1. n - k <= n - j
    BY <1>2, <1>3
  <2> QED
    BY <1>0, <2>1
<1>5. \E x \in T : \A y \in T : x >= y
  BY <1>4
<1>6. Max(T) \in T /\ \A y \in T : Max(T) >= y
  BY <1>5 DEF Max
<1> QED
  BY <1>6

\* The highest of some positions.
LEMMA HighestIsIn ==
    ASSUME NEW n \in Nat, NEW T \in SUBSET (1..n), T # {}
    PROVE  Max(T) \in T /\ \A k \in T : k <= Max(T)
<1>1. T \in SUBSET (0..n)
  OBVIOUS
<1> QED
  BY <1>1, HighestOf

\* Division, with what is left over and with what is missing.
LEMMA DivIs ==
    ASSUME NEW a \in Nat, NEW b \in Nat \ {0}
    PROVE  /\ a \div b \in Nat /\ b * (a \div b) <= a /\ a < b * ((a \div b) + 1)
BY Z3

\* What is left over by a division.
LEMMA RestIs ==
    ASSUME NEW q \in Nat, NEW b \in Nat \ {0}, NEW r \in 0..(b - 1), NEW a \in Nat, a = b * q + r
    PROVE  a % b = r
BY SMTT(60)

\* A number is a multiple and what is left over.
LEMMA ModIs ==
    ASSUME NEW a \in Nat, NEW b \in Nat \ {0}
    PROVE  \E q, r \in Nat : a \div b = q /\ a % b = r /\ r < b /\ a = b * q + r
<1> DEFINE q == a \div b
           r == a - b * q
<1>1. q \in Nat /\ b * q <= a /\ a < b * (q + 1)
  BY DivIs
<1>0. a \div b = q
  OBVIOUS
<1> HIDE DEF q
<1>2. b * q \in Nat /\ b * (q + 1) = b * q + b
  BY <1>1
<1>3. r \in 0..(b - 1) /\ a = b * q + r
  BY <1>1, <1>2
<1> HIDE DEF r
<1>4. a % b = r
  BY <1>1, <1>3, RestIs
<1>5. q \in Nat /\ r \in Nat /\ r < b /\ a = b * q + r
  BY <1>1, <1>3
<1> QED
  BY <1>0, <1>4, <1>5

\* Division that rounds up.
LEMMA CeilDivIs ==
    ASSUME NEW a \in Nat, NEW b \in Nat \ {0}
    PROVE  /\ CeilDiv(a, b) \in Nat /\ a <= b * CeilDiv(a, b) /\ b * (CeilDiv(a, b) - 1) < a
<1> DEFINE q == CeilDiv(a, b)
           c == a + b - 1
<1>1. c \in Nat /\ q = c \div b
  BY DEF CeilDiv
<1> HIDE DEF q, c
<1>2. q \in Nat /\ b * q <= c /\ c < b * (q + 1)
  BY <1>1, DivIs
<1>3. b * (q + 1) = b * q + b /\ b * (q - 1) = b * q - b
  BY <1>2
<1>4. b * q \in Nat
  BY <1>2
<1>5. a <= b * q /\ b * (q - 1) < a
  BY <1>2, <1>3, <1>4 DEF c
<1> QED
  BY <1>2, <1>5 DEF q

\* A positive factor cancels.
LEMMA Cancels ==
    ASSUME NEW a \in Int, NEW b \in Int, NEW c \in Nat \ {0}
    PROVE  (c * a < c * b => a < b) /\ (c * a <= c * b => a <= b) /\ (a <= b => c * a <= c * b)
OBVIOUS
-----------------------------------------------------------------------------
\* The capture.
\* Of what kind the samples on their way are, and what the callback may have seen.
CaptureTypes ==
    /\ captured \in Nat /\ ring \in Seq(Nat) /\ hand \in Seq(Nat) /\ heard \in Seq(Nat)
    /\ input \in Seq(Seq(Nat))
    /\ callback \in {"idle", "overrun", "invalid"}

\* The drain thread holds samples only on the way from the ring to the session.
HandIsOnItsWay ==
    outcome = "none" =>
        \/ hand = <<>>
        \/ drain \in {"pop", "push", "retry overrun", "retry error"}

\* The input of a session that goes on is closed only by a finish that saw the drain
\* thread end; and so it is when the session has ended well.
ClosedWhenDrained ==
    /\ outcome = "none" /\ host \in {"closing", "finishing"} => drain = "ended"
    /\ outcome = "none" /\ ~accepting => host = "finishing"
    /\ outcome = "ok" => drain = "ended" /\ host \notin {"open", "spawn"}
    /\ host \in {"finished", "failed"} => outcome # "none"
    /\ host \in {"open", "spawn"} => drain = "off"

CaptureInv == CaptureTypes /\ HandIsOnItsWay /\ ClosedWhenDrained /\ CapturedInOrder
-----------------------------------------------------------------------------
\* A fault is never forgotten: what the callback has seen it stores.
LEMMA FaultsStay == ASSUME CaptureTypes, [CaptureNext]_vars PROVE Faulty => Faulty'
<1> USE DEF CaptureTypes, Faulty
<1>1. CASE DeliverSample
  BY <1>1 DEF DeliverSample, Capturing, flags
<1>2. CASE StoreFault
  BY <1>2 DEF StoreFault
<1>3. CASE DeviceFails
  BY <1>3 DEF DeviceFails, deviceVars
<1>4. CASE Drain
  BY <1>4 DEF Drain, CheckFlag, PopSample, PopEnds, CheckStop, PushBatch, Retries, DrainStep,
              flags, deviceVars
<1>5. CASE Worker
  BY <1>5 DEF Worker, flags, deviceVars
<1>6. CASE HostGoesOn
  BY <1>6 DEF HostGoesOn, OpenDevice, SpawnDrain, Play, SetStop, CancelSession, Drained,
              CloseInput, FinishReturns, HostStep, flags
<1>7. CASE StartFails \/ TakeStream
  BY <1>7 DEF StartFails, TakeStream, HostStep, flags
<1>8. CASE Tick
  BY <1>8 DEF Tick, flags, deviceVars
<1>9. CASE UNCHANGED vars
  BY <1>9 DEF vars, flags, deviceVars
<1> QED
  BY <1>1, <1>2, <1>3, <1>4, <1>5, <1>6, <1>7, <1>8, <1>9 DEF CaptureNext

\* What no sample moves in: the session goes on as it was, or it ends with an error.
Quiet ==
    /\ UNCHANGED <<captured, ring, hand, heard>>
    /\ \/ UNCHANGED <<outcome, input>>
       \/ outcome = "none" /\ outcome' = "error" /\ input' = <<>>

\* Such a step keeps the samples in order.
LEMMA QuietKeepsOrder ==
    ASSUME CapturedInOrder, Quiet, Faulty => Faulty' PROVE CapturedInOrder'
<1>1. Captured' = Captured
  BY DEF Quiet, Captured
<1>2. SUFFICES ASSUME ~Faulty, ~Faulty'
      PROVE /\ outcome' = "none" => heard' \o FlattenSeq(input') \o hand' \o ring' = Captured'
            /\ outcome' = "ok" => heard' \o ring' = Captured'
  BY DEF CapturedInOrder
<1>3. /\ outcome = "none" => heard \o FlattenSeq(input) \o hand \o ring = Captured
      /\ outcome = "ok" => heard \o ring = Captured
  BY <1>2 DEF CapturedInOrder
<1>4. heard' = heard /\ hand' = hand /\ ring' = ring
  BY DEF Quiet
<1>5. CASE UNCHANGED <<outcome, input>>
  BY <1>1, <1>3, <1>4, <1>5, Zenon
<1>6. CASE outcome' = "error"
  BY <1>6
<1> QED
  BY <1>5, <1>6 DEF Quiet

\* Most steps are such.
QuietAction ==
    \/ StoreFault \/ DeviceFails \/ (WorkerFails /\ Worker)
    \/ Drain /\ ~PopSample /\ ~PushBatch
    \/ HostGoesOn \/ StartFails \/ TakeStream \/ Tick \/ UNCHANGED vars

\* They are all steps but those that move a sample, and the completion.
LEMMA QuietSteps ==
    ASSUME CaptureTypes, QuietAction
    PROVE  Quiet
<1> USE DEF Quiet, Settled
<1>1. CASE StoreFault
  BY <1>1 DEF StoreFault, drainVars, sessionVars
<1>2. CASE DeviceFails
  BY <1>2 DEF DeviceFails, deviceVars, drainVars, sessionVars
<1>3. CASE PopEnds \/ CheckStop
  BY <1>3 DEF PopEnds, CheckStop, Goes, DrainStep, deviceVars, sessionVars
<1>4. ASSUME NEW place, NEW flag, NEW next, CheckFlag(place, flag, next) PROVE Quiet
  BY <1>4 DEF CheckFlag, EndsFailing, Goes, DrainStep, deviceVars, sessionVars
<1>5. CASE Drain /\ ~PopSample /\ ~PushBatch
  BY <1>3, <1>4, <1>5 DEF Drain, Retries
<1>6. CASE WorkerFails /\ Worker
  BY <1>6 DEF WorkerFails, Worker, deviceVars, drainVars, sessionVars
<1>7. CASE HostGoesOn
  BY <1>7 DEF HostGoesOn, OpenDevice, SpawnDrain, Play, SetStop, CancelSession, Drained,
              CloseInput, FinishReturns, HostStep, sessionVars
<1>8. CASE StartFails \/ TakeStream
  BY <1>8 DEF StartFails, TakeStream, HostStep, sessionVars
<1>9. CASE Tick \/ UNCHANGED vars
  BY <1>9 DEF Tick, vars, deviceVars, drainVars, sessionVars
<1> QED
  BY <1>1, <1>2, <1>3, <1>4, <1>5, <1>6, <1>7, <1>8, <1>9 DEF QuietAction

Numbers(n) == [k \in 1..n |-> k]

\* The session goes on: what there is of it is in order.
OnItsWay(h, i, a, r, c) == ((h \o FlattenSeq(i)) \o a) \o r = Numbers(c)

\* CapturedInOrder, in terms of OnItsWay.
LEMMA OrderIs ==
    CapturedInOrder <=> (~Faulty => /\ outcome = "none" => OnItsWay(heard, input, hand, ring, captured)
                                    /\ outcome = "ok" => heard \o ring = Captured)
BY DEF CapturedInOrder, OnItsWay, Captured, Numbers

\* A sample that is delivered comes after all others.
LEMMA DeliveredLast ==
    \A q, r \in Seq(Nat), c \in Nat :
       q \o r = Numbers(c) => q \o Append(r, c + 1) = Numbers(c + 1)
<1> SUFFICES ASSUME NEW q \in Seq(Nat), NEW r \in Seq(Nat), NEW c \in Nat, q \o r = Numbers(c)
             PROVE  q \o Append(r, c + 1) = Numbers(c + 1)
  BY Zenon
<1> DEFINE w == Numbers(c)
           z == Numbers(c + 1)
<1>1. Append(r, c + 1) = r \o <<c + 1>> /\ <<c + 1>> \in Seq(Nat)
  BY AppendIsConcat
<1>2. (q \o r) \o <<c + 1>> = q \o (r \o <<c + 1>>)
  BY <1>1, Regroup
<1>3. w \o <<c + 1>> = z
  BY DEF Numbers
<1> QED
  BY <1>1, <1>2, <1>3, Zenon

\* A sample that is delivered is the last of those on their way.
LEMMA DeliverKeepsOrder ==
    ASSUME CaptureInv, CaptureTypes', DeliverSample, Faulty => Faulty' PROVE CapturedInOrder'
<1>1. UNCHANGED <<heard, input, hand, outcome>> /\ captured' = captured + 1
  BY DEF DeliverSample, drainVars, sessionVars
<1>2. SUFFICES ASSUME ~Faulty, ~Faulty'
      PROVE /\ outcome' = "none" => OnItsWay(heard', input', hand', ring', captured')
            /\ outcome' = "ok" => heard' \o ring' = Captured'
  BY DEF CapturedInOrder, OnItsWay, Captured, Numbers
<1>3. /\ outcome = "none" => OnItsWay(heard, input, hand, ring, captured)
      /\ outcome = "ok" => heard \o ring = Captured
  BY <1>2, OrderIs DEF CaptureInv
<1>4. ring' = Append(ring, captured + 1)
  BY <1>1, <1>2 DEF DeliverSample, Faulty
<1>5. captured \in Nat /\ ring \in Seq(Nat) /\ heard \in Seq(Nat) /\ hand \in Seq(Nat) /\ input \in Seq(Seq(Nat))
  BY DEF CaptureInv, CaptureTypes
<1>6. (heard \o FlattenSeq(input)) \o hand \in Seq(Nat)
  <2>1. FlattenSeq(input) \in Seq(Nat)
    BY <1>5, FlattenTyped
  <2> QED
    BY <1>5, <2>1, ConcatProperties
<1>7. ASSUME outcome = "none" PROVE OnItsWay(heard, input, hand, Append(ring, captured + 1), captured + 1)
  <2> DEFINE q == (heard \o FlattenSeq(input)) \o hand
  <2>1. q \o ring = Numbers(captured)
    BY <1>3, <1>7 DEF OnItsWay
  <2>2. q \in Seq(Nat)
    BY <1>6
  <2> HIDE DEF q
  <2>3. q \o Append(ring, captured + 1) = Numbers(captured + 1)
    BY <1>5, <2>1, <2>2, DeliveredLast, Zenon
  <2> QED
    BY <2>3, Zenon DEF OnItsWay, q
<1>8. ASSUME outcome = "ok" PROVE heard \o Append(ring, captured + 1) = Numbers(captured + 1)
  <2>1. heard \o ring = Numbers(captured)
    BY <1>3, <1>8 DEF Captured, Numbers
  <2>2. heard \in Seq(Nat) /\ ring \in Seq(Nat) /\ captured \in Nat
    BY <1>5
  <2> QED
    BY <2>1, <2>2, DeliveredLast, Zenon
<1> QED
  BY <1>1, <1>4, <1>7, <1>8 DEF Captured, Numbers

\* A sample that is popped is the next after those in hand.
LEMMA PopKeepsOrder ==
    ASSUME CaptureInv, PopSample, Faulty => Faulty' PROVE CapturedInOrder'
<1>1. UNCHANGED <<heard, input, outcome, captured>>
  BY DEF PopSample, DrainStep, deviceVars, sessionVars
<1>2. SUFFICES ASSUME ~Faulty, ~Faulty'
      PROVE /\ outcome' = "none" => OnItsWay(heard', input', hand', ring', captured')
            /\ outcome' = "ok" => heard' \o ring' = Captured'
  BY DEF CapturedInOrder, OnItsWay, Captured, Numbers
<1>3. outcome = "none" => OnItsWay(heard, input, hand, ring, captured)
  BY <1>2, OrderIs DEF CaptureInv
<1>4. ring # <<>> /\ hand' = Append(hand, Head(ring)) /\ ring' = Tail(ring) /\ drain = "pop"
  BY DEF PopSample
<1>5. ring \in Seq(Nat) /\ heard \in Seq(Nat) /\ hand \in Seq(Nat) /\ input \in Seq(Seq(Nat))
  BY DEF CaptureInv, CaptureTypes
<1>6. heard \o FlattenSeq(input) \in Seq(Nat)
  <2>1. FlattenSeq(input) \in Seq(Nat)
    BY <1>5, FlattenTyped
  <2> QED
    BY <1>5, <2>1, ConcatProperties
<1>7. outcome # "ok"
  BY <1>4 DEF CaptureInv, ClosedWhenDrained
<1>8. ASSUME outcome = "none" PROVE OnItsWay(heard, input, Append(hand, Head(ring)), Tail(ring), captured)
  <2> DEFINE q == heard \o FlattenSeq(input)
             e == Head(ring)
             t == Tail(ring)
  <2>1. (q \o hand) \o ring = Numbers(captured)
    BY <1>3, <1>8 DEF OnItsWay
  <2>2. q \in Seq(Nat) /\ e \in Nat /\ t \in Seq(Nat)
    BY <1>4, <1>5, <1>6
  <2>3. <<e>> \o t = ring
    BY <1>4, <1>5
  <2> HIDE DEF q, e, t
  <2>4. (q \o Append(hand, e)) \o t = (q \o hand) \o (<<e>> \o t)
    <3> DEFINE h == hand
    <3>1. h \in Seq(Nat)
      BY <1>5
    <3> HIDE DEF h
    <3>2. (q \o Append(h, e)) \o t = (q \o h) \o (<<e>> \o t)
      BY <2>2, <3>1, MovesOver
    <3> QED
      BY <3>2, Zenon DEF h
  <2>5. (q \o Append(hand, e)) \o t = Numbers(captured)
    BY <2>1, <2>3, <2>4, Zenon
  <2> QED
    BY <2>5, Zenon DEF OnItsWay, q, e, t
<1> QED
  BY <1>1, <1>4, <1>7, <1>8

\* The worker hears the first chunk of the queue.
LEMMA TakeKeepsOrder ==
    ASSUME CaptureInv, Worker, WorkerTakes, Faulty => Faulty' PROVE CapturedInOrder'
<1>1. /\ UNCHANGED <<hand, ring, outcome, captured>> /\ outcome = "none" /\ input # <<>>
      /\ heard' = heard \o Head(input) /\ input' = Tail(input)
  BY DEF Worker, WorkerTakes, deviceVars, drainVars
<1>2. SUFFICES ASSUME ~Faulty, ~Faulty'
      PROVE OnItsWay(heard', input', hand', ring', captured')
  BY <1>1 DEF CapturedInOrder, OnItsWay, Captured, Numbers
<1>3. OnItsWay(heard, input, hand, ring, captured)
  BY <1>1, <1>2, OrderIs DEF CaptureInv
<1>4. heard \in Seq(Nat) /\ input \in Seq(Seq(Nat))
  BY DEF CaptureInv, CaptureTypes
<1>5. (heard \o Head(input)) \o FlattenSeq(Tail(input)) = heard \o FlattenSeq(input)
  <2> DEFINE e == Head(input)
             t == FlattenSeq(Tail(input))
             f == FlattenSeq(input)
  <2>1. e \in Seq(Nat) /\ Tail(input) \in Seq(Seq(Nat))
    BY <1>1, <1>4
  <2>2. t \in Seq(Nat)
    BY <2>1, FlattenTyped
  <2>3. f = e \o t
    BY <1>1, <1>4, FlattenTail
  <2>4. heard \in Seq(Nat)
    BY <1>4
  <2> HIDE DEF e, t, f
  <2>5. (heard \o e) \o t = heard \o (e \o t)
    <3> DEFINE h == heard
    <3>1. (h \in Seq(Nat)) /\ (e \in Seq(Nat)) /\ (t \in Seq(Nat))
      BY <2>1, <2>2, <2>4
    <3> HIDE DEF h
    <3>2. (h \o e) \o t = h \o (e \o t)
      BY ONLY <3>1, ConcatAssociative
    <3> QED
      BY <3>2, Zenon DEF h
  <2>6. (heard \o e) \o t = heard \o f
    BY <2>3, <2>5, Zenon
  <2> QED
    BY <2>6, Zenon DEF e, t, f
<1>6. OnItsWay(heard \o Head(input), Tail(input), hand, ring, captured)
  BY <1>3, <1>5, Zenon DEF OnItsWay
<1> QED
  BY <1>1, <1>6, Zenon

\* The batch in hand is pushed; else the drain thread changes its place, or fails.
LEMMA PushKeepsOrder ==
    ASSUME CaptureInv, PushBatch, Faulty => Faulty' PROVE CapturedInOrder'
<1>1. UNCHANGED captured
  BY DEF PushBatch, DrainStep, deviceVars
<1>2. CASE Quiet
  BY <1>2, QuietKeepsOrder DEF CaptureInv
<1>3. CASE ~Quiet
  <2>1. /\ input' = Append(input, hand) /\ hand' = <<>> /\ UNCHANGED <<ring, accepting, heard, outcome>>
        /\ accepting /\ drain = "push"
    BY <1>1, <1>3 DEF PushBatch, Quiet, Refused, EndsFailing, Goes, Settled, sessionVars
  <2>2. outcome # "ok"
    BY <2>1 DEF CaptureInv, ClosedWhenDrained
  <2>3. SUFFICES ASSUME ~Faulty, ~Faulty', outcome = "none"
        PROVE OnItsWay(heard, Append(input, hand), <<>>, ring, captured)
    BY <1>1, <2>1, <2>2 DEF CapturedInOrder, OnItsWay, Captured, Numbers
  <2>4. OnItsWay(heard, input, hand, ring, captured)
    BY <2>3, OrderIs DEF CaptureInv
  <2>5. heard \in Seq(Nat) /\ input \in Seq(Seq(Nat)) /\ hand \in Seq(Nat)
    BY DEF CaptureInv, CaptureTypes
  <2> DEFINE f == FlattenSeq(input)
             g == FlattenSeq(Append(input, hand))
  <2>6. f \in Seq(Nat) /\ g = f \o hand
    BY <2>5, FlattenAppend
  <2>7. hand \in Seq(Nat) /\ heard \in Seq(Nat)
    BY <2>5
  <2> HIDE DEF f, g
  <2>8. (heard \o f) \o hand = heard \o (f \o hand)
    BY ONLY <2>6, <2>7, ConcatAssociative
  <2>9. (heard \o f) \o hand = heard \o g
    BY <2>6, <2>8, Zenon
  <2>10. (heard \o g) \o <<>> = heard \o g
    <3> DEFINE w == heard \o g
    <3>1. g \in Seq(Nat)
      BY <2>6, <2>7, ConcatProperties
    <3>2. w \in Seq(Nat)
      BY <2>7, <3>1, ConcatProperties
    <3> HIDE DEF w
    <3>3. w \o <<>> = w
      BY ONLY <3>2, ConcatEmptySeq
    <3> QED
      BY <3>3, Zenon DEF w
  <2>11. (heard \o g) \o <<>> = (heard \o f) \o hand
    BY <2>9, <2>10, Zenon
  <2> QED
    BY <2>4, <2>11, Zenon DEF OnItsWay, f, g
<1> QED
  BY <1>2, <1>3

\* When the worker completes, all that was taken from the ring has been heard.
LEMMA CompleteKeepsOrder ==
    ASSUME CaptureInv, Worker, WorkerCompletes, Faulty => Faulty' PROVE CapturedInOrder'
<1>1. /\ UNCHANGED <<heard, hand, ring, captured>> /\ outcome' = "ok"
      /\ outcome = "none" /\ ~accepting /\ input = <<>>
  BY DEF Worker, WorkerCompletes, Settled, deviceVars, drainVars
<1>2. hand = <<>>
  BY <1>1 DEF CaptureInv, ClosedWhenDrained, HandIsOnItsWay
<1>3. SUFFICES ASSUME ~Faulty PROVE heard \o ring = Captured
  BY <1>1 DEF CapturedInOrder, Captured
<1>4. OnItsWay(heard, input, hand, ring, captured)
  BY <1>1, <1>3, OrderIs DEF CaptureInv
<1>5. FlattenSeq(<<>>) = <<>>
  <2>1. Len(<<>>) = 0
    OBVIOUS
  <2> QED
    BY <2>1 DEF FlattenSeq
<1>6. (heard \o <<>>) \o <<>> = heard
  <2>1. heard \in Seq(Nat)
    BY DEF CaptureInv, CaptureTypes
  <2>2. heard \o <<>> = heard
    BY ONLY <2>1, ConcatEmptySeq
  <2> QED
    BY <2>2, Zenon
<1>7. ((heard \o FlattenSeq(input)) \o hand) \o ring = heard \o ring
  BY <1>1, <1>2, <1>5, <1>6, Zenon
<1> QED
  BY <1>4, <1>7, Zenon DEF OnItsWay, Captured, Numbers
-----------------------------------------------------------------------------
\* Every step leaves things of their kinds.
LEMMA CaptureTypesKept == ASSUME CaptureTypes, [CaptureNext]_vars PROVE CaptureTypes'
<1> USE DEF CaptureTypes
<1>0. <<>> \in Seq(Nat) /\ <<>> \in Seq(Seq(Nat))
  OBVIOUS
<1>1. CASE DeliverSample
  <2>1. captured + 1 \in Nat /\ ring \in Seq(Nat)
    OBVIOUS
  <2>2. Append(ring, captured + 1) \in Seq(Nat)
    BY ONLY <2>1
  <2> QED
    BY <1>1, <2>1, <2>2 DEF DeliverSample, Capturing, drainVars, sessionVars
<1>2. CASE StoreFault \/ DeviceFails \/ Tick \/ UNCHANGED vars
  BY <1>2 DEF StoreFault, DeviceFails, Tick, vars, deviceVars, drainVars, sessionVars
<1>3. CASE Drain
  <2>1. CASE PopSample
    <3>1. Head(ring) \in Nat /\ Tail(ring) \in Seq(Nat)
      BY <2>1 DEF PopSample
    <3>2. Append(hand, Head(ring)) \in Seq(Nat)
      BY <3>1
    <3> QED
      BY <2>1, <3>1, <3>2 DEF PopSample, DrainStep, deviceVars, sessionVars
  <2>2. CASE PopEnds \/ CheckStop
    BY <2>2 DEF PopEnds, CheckStop, Goes, DrainStep, deviceVars, sessionVars
  <2>3. ASSUME NEW place, NEW flag, NEW next, CheckFlag(place, flag, next) PROVE CaptureTypes'
    BY <1>0, <2>3 DEF CheckFlag, EndsFailing, Settled, Goes, DrainStep, deviceVars, sessionVars
  <2>4. CASE PushBatch
    <3>1. Append(input, hand) \in Seq(Seq(Nat))
      OBVIOUS
    <3> QED
      BY <1>0, <2>4, <3>1 DEF PushBatch, Refused, EndsFailing, Settled, Goes, DrainStep,
                              deviceVars, sessionVars
  <2> QED
    BY <1>3, <2>1, <2>2, <2>3, <2>4 DEF Drain, Retries
<1>4. CASE Worker
  <2>1. CASE WorkerTakes
    <3> DEFINE e == Head(input)
               h == heard
    <3>1. e \in Seq(Nat) /\ Tail(input) \in Seq(Seq(Nat)) /\ h \in Seq(Nat)
      BY <2>1 DEF WorkerTakes
    <3> HIDE DEF e, h
    <3>2. h \o e \in Seq(Nat)
      BY ONLY <3>1, ConcatProperties
    <3>3. heard' \in Seq(Nat)
      BY <2>1, <3>2, Zenon DEF WorkerTakes, e, h
    <3>4. input' \in Seq(Seq(Nat)) /\ UNCHANGED <<captured, ring, hand, callback>>
      BY <1>4, <2>1, <3>1 DEF Worker, WorkerTakes, deviceVars, drainVars
    <3> QED
      BY <3>3, <3>4
  <2>2. CASE ~WorkerTakes
    BY <1>0, <1>4, <2>2 DEF Worker, WorkerCompletes, WorkerFails, Settled, deviceVars, drainVars, sessionVars
  <2> QED
    BY <2>1, <2>2
<1>5. CASE HostGoesOn
  BY <1>0, <1>5 DEF HostGoesOn, OpenDevice, SpawnDrain, Play, SetStop, CancelSession, Drained,
              CloseInput, FinishReturns, HostStep, Settled, sessionVars
<1>6. CASE StartFails \/ TakeStream
  BY <1>0, <1>6 DEF StartFails, TakeStream, HostStep, Settled, sessionVars
<1> QED
  BY <1>1, <1>2, <1>3, <1>4, <1>5, <1>6 DEF CaptureNext

\* And so with what the drain thread holds, and when the input is closed.
LEMMA DrainedKept ==
    ASSUME HandIsOnItsWay, ClosedWhenDrained, [CaptureNext]_vars
    PROVE  HandIsOnItsWay' /\ ClosedWhenDrained'
<1> USE DEF HandIsOnItsWay, ClosedWhenDrained
<1>1. CASE DeliverSample
  BY <1>1 DEF DeliverSample, drainVars, hostVars, sessionVars
<1>2. CASE StoreFault \/ DeviceFails \/ Tick \/ UNCHANGED vars
  BY <1>2 DEF StoreFault, DeviceFails, Tick, vars, deviceVars, drainVars, hostVars, sessionVars
<1>3. CASE Drain
  <2>1. CASE PopSample \/ PopEnds \/ CheckStop
    BY <2>1 DEF PopSample, PopEnds, CheckStop, Goes, DrainStep, hostVars, sessionVars
  <2>2. ASSUME NEW place, NEW flag, NEW next, CheckFlag(place, flag, next),
               \/ place \in {"invalid", "overrun", "error"}
               \/ place \in {"retry overrun", "retry error"} /\ next \in {"retry error", "push"}
        PROVE HandIsOnItsWay' /\ ClosedWhenDrained'
    <3>1. UNCHANGED <<hand, host>> /\ place # "ended" /\ place # "off" /\ drain = place
      BY <2>2 DEF CheckFlag, EndsFailing, Goes, DrainStep, hostVars
    <3>2. CASE EndsFailing
      BY <3>1, <3>2 DEF EndsFailing, Settled, sessionVars
    <3>3. CASE Goes(next)
      BY <2>2, <3>1, <3>3 DEF Goes, sessionVars
    <3> QED
      BY <2>2, <3>2, <3>3 DEF CheckFlag
  <2>3. CASE PushBatch
    BY <2>3 DEF PushBatch, Refused, EndsFailing, Settled, Goes, DrainStep, hostVars, sessionVars
  <2>4. CASE Retries
    BY <2>2, <2>4 DEF Retries
  <2> QED
    BY <1>3, <2>1, <2>2, <2>3, <2>4 DEF Drain
<1>4. CASE Worker
  <2>1. UNCHANGED <<drain, hand, host>>
    BY <1>4 DEF Worker, drainVars, hostVars
  <2>2. CASE WorkerTakes
    <3>1. UNCHANGED <<accepting, outcome>>
      BY <2>2 DEF WorkerTakes
    <3> QED
      BY <2>1, <3>1
  <2>3. CASE WorkerCompletes
    BY <2>1, <2>3 DEF WorkerCompletes, Settled
  <2>4. CASE WorkerFails
    BY <2>1, <2>4 DEF WorkerFails, Settled
  <2> QED
    BY <1>4, <2>2, <2>3, <2>4 DEF Worker
<1>5. CASE HostGoesOn
  <2>1. CASE OpenDevice \/ SpawnDrain \/ Play \/ SetStop
    BY <2>1 DEF OpenDevice, SpawnDrain, Play, SetStop, HostStep, sessionVars
  <2>2. CASE CancelSession \/ Drained
    BY <2>2 DEF CancelSession, Drained, HostStep, Settled, sessionVars
  <2>3. CASE CloseInput \/ FinishReturns
    BY <2>3 DEF CloseInput, FinishReturns, HostStep, Settled, sessionVars
  <2> QED
    BY <1>5, <2>1, <2>2, <2>3 DEF HostGoesOn
<1>6. CASE StartFails \/ TakeStream
  BY <1>6 DEF StartFails, TakeStream, HostStep, Settled, sessionVars
<1> QED
  BY <1>1, <1>2, <1>3, <1>4, <1>5, <1>6 DEF CaptureNext

\* The drain thread and the host, in any order of their steps and the device's, keep
\* the samples in order.
THEOREM CaptureInvariantHolds == CaptureSpec => []CaptureInv
<1>1. CaptureInit => CaptureInv
  <2> SUFFICES ASSUME CaptureInit PROVE CaptureInv
    OBVIOUS
  <2> USE DEF CaptureInit
  <2>1. CaptureTypes
    <3>1. <<>> \in Seq(Nat) /\ <<>> \in Seq(Seq(Nat))
      OBVIOUS
    <3> QED
      BY <3>1 DEF CaptureTypes
  <2>2. HandIsOnItsWay /\ ClosedWhenDrained
    BY DEF HandIsOnItsWay, ClosedWhenDrained
  <2>3. CapturedInOrder
    <3>1. FlattenSeq(<<>>) = <<>>
      <4>1. Len(<<>>) = 0
        OBVIOUS
      <4> QED
        BY <4>1 DEF FlattenSeq
    <3>2. Captured = <<>>
      BY DEF Captured
    <3>3. <<>> \o <<>> = <<>>
      OBVIOUS
    <3>4. heard \o FlattenSeq(input) \o hand \o ring = Captured
      BY <3>1, <3>2, <3>3, Zenon
    <3> QED
      BY <3>4 DEF CapturedInOrder
  <2> QED
    BY <2>1, <2>2, <2>3 DEF CaptureInv
<1>2. CaptureInv /\ [CaptureNext]_vars => CaptureInv'
  <2> SUFFICES ASSUME CaptureInv, [CaptureNext]_vars PROVE CaptureInv'
    OBVIOUS
  <2>1. CaptureTypes' /\ HandIsOnItsWay' /\ ClosedWhenDrained'
    BY CaptureTypesKept, DrainedKept DEF CaptureInv
  <2>2. Faulty => Faulty'
    BY FaultsStay DEF CaptureInv
  <2>3. CASE Quiet
    BY <2>2, <2>3, QuietKeepsOrder, <2>1 DEF CaptureInv
  <2>4. CASE ~Quiet
    <3>0. CaptureTypes
      BY DEF CaptureInv
    <3>1. \/ DeliverSample \/ PopSample \/ PushBatch
          \/ Worker /\ (WorkerTakes \/ WorkerCompletes)
      <4>1. Worker => WorkerTakes \/ WorkerCompletes \/ WorkerFails
        BY DEF Worker
      <4>2. ~QuietAction
        BY <2>4, <3>0, QuietSteps
      <4>3. CaptureNext \/ UNCHANGED vars
        OBVIOUS
      <4>4. CASE UNCHANGED vars
        BY <4>2, <4>4 DEF QuietAction
      <4>5. CASE CaptureNext
        BY <4>1, <4>2, <4>5 DEF CaptureNext, QuietAction
      <4> QED
        BY <4>3, <4>4, <4>5
    <3>2. CapturedInOrder'
      BY <2>1, <2>2, <3>1, DeliverKeepsOrder, PopKeepsOrder, PushKeepsOrder, TakeKeepsOrder, CompleteKeepsOrder
    <3> QED
      BY <2>1, <3>2 DEF CaptureInv
  <2> QED
    BY <2>3, <2>4
<1> QED
  BY <1>1, <1>2, PTL DEF CaptureSpec

\* Without a fault the samples of a capture are in order and complete: what the
\* session has not heard is queued, in the drain thread's hand or in the ring.
THEOREM CaptureIsInOrder == CaptureSpec => []CapturedInOrder
<1>1. CaptureInv => CapturedInOrder
  BY DEF CaptureInv
<1> QED
  BY <1>1, CaptureInvariantHolds, PTL
-----------------------------------------------------------------------------
\* The resampler.
\* Made and Wanted, with all that they depend on.
MadeAt(count, l, s, d) ==
    IF count * Block - l <= 0 THEN 0 ELSE CeilDiv((count * Block - l) * d, s)
WantedAt(frames, s, d) == (frames * d + s \div 2) \div s

\* What has come out after so many blocks: the frames after the delay, up to a limit.
Emitted(count, l, s, d) ==
    IF MadeAt(count, l, s, d) > Delay(s, d) THEN MadeAt(count, l, s, d) - Delay(s, d) ELSE 0
FramesTo(n, first) == [k \in 1..n |-> first + k]
HasFiltered(state, count, limit, l, s, d) ==
    /\ state.blocks = count
    /\ state.skip = IF Delay(s, d) > MadeAt(count, l, s, d) THEN Delay(s, d) - MadeAt(count, l, s, d) ELSE 0
    /\ state.output = FramesTo(Least(Emitted(count, l, s, d), limit), Delay(s, d))

\* The rates are two of Rates, and the lag is one that the filter may have.
RatesTyped ==
    /\ <<src, dst>> \in Rates /\ lag \in 0..MaxLag(src, dst)
    /\ inputFrames \in Nat /\ pendingFrames \in Nat /\ blocks \in Nat
    /\ flush \in {"open", "flushed"}

\* Rates that are the same: nothing is filtered.
PassesThrough == src = dst => output = FramesTo(inputFrames, 0)

\* All complete blocks are filtered, and of their frames none was held back; with
\* finish all that are due are there.
AllBlocksFiltered ==
    src # dst /\ flush = "open" =>
        /\ inputFrames = Block * blocks + pendingFrames /\ pendingFrames < Block
        /\ HasFiltered([blocks |-> blocks, skip |-> skip, output |-> output], blocks,
                       Emitted(blocks, lag, src, dst), lag, src, dst)
AllIsFlushed ==
    src # dst /\ flush = "flushed" =>
        output = FramesTo(WantedAt(inputFrames, src, dst), Delay(src, dst))

ResamplerInv == RatesTyped /\ PassesThrough /\ AllBlocksFiltered /\ AllIsFlushed
-----------------------------------------------------------------------------
\* Division that rounds up is monotone.
LEMMA CeilDivGrows ==
    ASSUME NEW a \in Nat, NEW c \in Nat, a <= c, NEW b \in Nat \ {0}
    PROVE  CeilDiv(a, b) <= CeilDiv(c, b)
<1> DEFINE p == CeilDiv(a, b)
           q == CeilDiv(c, b)
<1>1. p \in Nat /\ q \in Nat /\ c <= b * q /\ b * (p - 1) < a
  BY CeilDivIs
<1> HIDE DEF p, q
<1>2. b * (p - 1) < b * q
  BY <1>1
<1>3. p - 1 < q
  BY <1>1, <1>2, Cancels
<1> QED
  BY <1>1, <1>3 DEF p, q

\* Rates that are two of Rates, with a lag of the filter, and what they make.
GoodRates(l, s, d) ==
    /\ s \in Nat \ {0} /\ d \in Nat \ {0} /\ l \in Nat
    /\ s # d => Delay(s, d) > 0 /\ l <= Block

\* The constants of the resampler are positive.
LEMMA ResamplerConstants == Block \in Nat \ {0} /\ Window \in Nat \ {0} /\ MaxFrames \in Nat \ {0}
BY ResamplerAssumption

\* The rates of a resampler are good ones.
LEMMA RatesAreGood == ASSUME RatesTyped PROVE GoodRates(lag, src, dst)
<1>1. <<src, dst>> \in (Nat \ {0}) \X (Nat \ {0})
  BY ResamplerAssumption DEF RatesTyped
<1>2. src \in Nat \ {0} /\ dst \in Nat \ {0}
  BY <1>1
<1>3. src # dst => Delay(src, dst) > 0 /\ MaxLag(src, dst) <= Block
  <2> DEFINE r == <<src, dst>>
  <2>1. r[1] # r[2] => Delay(r[1], r[2]) > 0 /\ MaxLag(r[1], r[2]) <= Block
    BY ResamplerAssumption DEF RatesTyped
  <2> QED
    BY <2>1
<1>4. MaxLag(src, dst) \in Nat
  <2>1. CeilDiv(src, dst) \in Nat
    BY <1>2, CeilDivIs
  <2>2. Window \div 2 \in Nat
    BY ResamplerConstants, DivIs
  <2> QED
    BY <2>1, <2>2 DEF MaxLag
<1>5. lag \in Nat /\ lag <= MaxLag(src, dst)
  BY <1>4 DEF RatesTyped
<1> QED
  BY <1>2, <1>3, <1>4, <1>5, ResamplerConstants DEF GoodRates

\* A delay is a number of frames.
LEMMA DelayTyped ==
    ASSUME NEW s \in Nat \ {0}, NEW d \in Nat \ {0} PROVE Delay(s, d) \in Nat
<1>1. Window * d \in Nat /\ 2 * s \in Nat \ {0}
  BY ResamplerConstants
<1>2. (Window * d) \div (2 * s) \in Nat
  BY <1>1, DivIs
<1> QED
  BY <1>2 DEF Delay

\* What is wanted is the rounded quotient.
LEMMA WantedTyped ==
    ASSUME NEW s \in Nat \ {0}, NEW d \in Nat \ {0}, NEW n \in Nat
    PROVE  /\ WantedAt(n, s, d) \in Nat
           /\ s * WantedAt(n, s, d) <= n * d + s \div 2
           /\ n * d + s \div 2 < s * (WantedAt(n, s, d) + 1)
           /\ s \div 2 \in Nat /\ s \div 2 < s
<1>1. s \div 2 \in Nat /\ s \div 2 < s
  BY Z3
<1> DEFINE a == n * d + s \div 2
<1>2. a \in Nat
  BY <1>1
<1> HIDE DEF a
<1>3. /\ a \div s \in Nat /\ s * (a \div s) <= a /\ a < s * ((a \div s) + 1)
  BY <1>2, DivIs
<1> QED
  BY <1>1, <1>3 DEF a, WantedAt

\* More blocks make more frames; those of the frames that came in, without the delay,
\* are never more than are wanted.
LEMMA MadeTyped ==
    ASSUME NEW l, NEW s, NEW d, GoodRates(l, s, d), NEW c \in Nat
    PROVE  /\ MadeAt(c, l, s, d) \in Nat
           /\ MadeAt(c, l, s, d) <= MadeAt(c + 1, l, s, d)
<1> DEFINE a == c * Block - l
           b == (c + 1) * Block - l
<1>1. a \in Int /\ b \in Int /\ a <= b /\ s \in Nat \ {0} /\ d \in Nat \ {0}
  BY ResamplerConstants DEF GoodRates
<1>2. /\ MadeAt(c, l, s, d) = IF a <= 0 THEN 0 ELSE CeilDiv(a * d, s)
      /\ MadeAt(c + 1, l, s, d) = IF b <= 0 THEN 0 ELSE CeilDiv(b * d, s)
  BY DEF MadeAt
<1> HIDE DEF a, b
<1>3. a > 0 => a * d \in Nat /\ b * d \in Nat /\ a * d <= b * d
  BY <1>1
<1>4. b > 0 => b * d \in Nat
  BY <1>1
<1>5. a > 0 => CeilDiv(a * d, s) \in Nat /\ CeilDiv(a * d, s) <= CeilDiv(b * d, s)
  BY <1>1, <1>3, CeilDivIs, CeilDivGrows
<1>6. b > 0 => CeilDiv(b * d, s) \in Nat
  BY <1>1, <1>4, CeilDivIs
<1> QED
  BY <1>1, <1>2, <1>5, <1>6

\* What has come out of blocks that came in is not more than what is wanted.
LEMMA NothingHeldBack ==
    ASSUME NEW l, NEW s, NEW d, GoodRates(l, s, d), s # d,
           NEW c \in Nat, NEW n \in Nat, Block * c <= n
    PROVE  Emitted(c, l, s, d) \in Nat /\ Emitted(c, l, s, d) <= WantedAt(n, s, d)
<1> DEFINE a == c * Block - l
           m == MadeAt(c, l, s, d)
           w == WantedAt(n, s, d)
<1>1. a \in Int /\ a <= n /\ s \in Nat \ {0} /\ d \in Nat \ {0}
  BY ResamplerConstants DEF GoodRates
<1>2. m = IF a <= 0 THEN 0 ELSE CeilDiv(a * d, s)
  BY DEF MadeAt
<1>3. w \in Nat /\ n * d + s \div 2 < s * (w + 1) /\ s \div 2 \in Nat
  BY <1>1, WantedTyped
<1>4. m \in Nat
  BY MadeTyped
<1> HIDE DEF a, m, w
<1>5. ASSUME a > 0 PROVE m <= w + 1
  <2>1. a * d \in Nat /\ a * d <= n * d /\ n * d \in Nat
    BY <1>1, <1>5
  <2>2. s * (m - 1) < a * d
    BY <1>1, <1>2, <1>5, <2>1, CeilDivIs
  <2>3. s * (m - 1) < s * (w + 1)
    <3>1. s * (m - 1) \in Int /\ s * (w + 1) \in Int
      BY <1>1, <1>3, <1>4
    <3>2. n * d < s * (w + 1)
      BY <1>1, <1>3, <2>1, <3>1
    <3> QED
      BY <2>1, <2>2, <3>1, <3>2
  <2>4. m - 1 < w + 1
    BY <1>1, <1>3, <1>4, <2>3, Cancels
  <2> QED
    BY <1>3, <1>4, <2>4
<1>6. m <= w + 1
  BY <1>1, <1>2, <1>3, <1>5
<1>7. Delay(s, d) \in Nat /\ Delay(s, d) > 0
  BY <1>1, DelayTyped DEF GoodRates
<1>8. Emitted(c, l, s, d) = IF m > Delay(s, d) THEN m - Delay(s, d) ELSE 0
  BY DEF Emitted, m
<1> QED
  BY <1>3, <1>4, <1>6, <1>7, <1>8 DEF w

\* The blocks of zeros that finish has are enough for all that is due.
LEMMA EnoughBlocks ==
    ASSUME NEW l, NEW s, NEW d, GoodRates(l, s, d), s # d,
           NEW c \in Nat, NEW n \in Nat, NEW p \in Nat, n = Block * c + p, p < Block,
           NEW g \in Nat, Delay(s, d) * s <= d * g,
           NEW k \in Nat, g <= Block * k
    PROVE  Emitted(c + k + 2, l, s, d) >= WantedAt(n, s, d)
<1> DEFINE a == (c + k + 2) * Block - l
           m == MadeAt(c + k + 2, l, s, d)
           w == WantedAt(n, s, d)
           e == Delay(s, d)
<1>1. s \in Nat \ {0} /\ d \in Nat \ {0} /\ l \in Nat /\ l <= Block /\ Block \in Nat \ {0}
  BY ResamplerConstants DEF GoodRates
<1>2. a \in Int /\ a >= n + g + 1
  <2>1. (c + k + 2) * Block = Block * c + Block * k + 2 * Block
    BY <1>1
  <2>2. Block * c \in Nat /\ Block * k \in Nat
    BY <1>1
  <2> QED
    BY <1>1, <2>1, <2>2
<1>3. m = IF a <= 0 THEN 0 ELSE CeilDiv(a * d, s)
  BY DEF MadeAt
<1>4. w \in Nat /\ s * w <= n * d + s \div 2 /\ s \div 2 \in Nat /\ s \div 2 < s
  BY <1>1, WantedTyped
<1>5. m \in Nat
  BY MadeTyped
<1>6. e \in Nat /\ e * s <= d * g
  BY <1>1, DelayTyped
<1> HIDE DEF a, m, w, e
<1>7. m >= e + w
  <2>1. a * d \in Nat /\ a * d >= (n + g + 1) * d
    BY <1>1, <1>2
  <2>2. (n + g + 1) * d = n * d + d * g + d /\ n * d \in Nat /\ d * g \in Nat
    BY <1>1
  <2>3. a * d <= s * m
    <3>1. m = CeilDiv(a * d, s)
      BY <1>2, <1>3
    <3>2. a * d <= s * CeilDiv(a * d, s)
      BY ONLY <1>1, <2>1, CeilDivIs
    <3> QED
      BY <3>1, <3>2
  <2>4. s * (e + w - 1) = e * s + s * w - s /\ e * s \in Nat /\ s * w \in Nat
    BY <1>1, <1>4, <1>6
  <2>5. s * m \in Nat
    BY <1>1, <1>5
  <2>6. s * (e + w - 1) < s * m
    BY <1>1, <1>4, <1>6, <2>1, <2>2, <2>3, <2>4, <2>5
  <2>7. e + w - 1 < m
    BY <1>1, <1>4, <1>5, <1>6, <2>6, Cancels
  <2> QED
    BY <1>4, <1>5, <1>6, <2>7
<1>8. Emitted(c + k + 2, l, s, d) = IF m > e THEN m - e ELSE 0
  BY DEF Emitted, m, e
<1> QED
  BY <1>4, <1>5, <1>6, <1>7, <1>8 DEF w

\* The frames that come out of one block follow those that came out before.
Follow(n, m, first, x) == FramesTo(n, first) \o FramesTo(m, x) = FramesTo(n + m, first)

\* Consecutive frames after consecutive frames are consecutive frames.
LEMMA FramesFollow ==
    \A n, m, first, x \in Nat :
       m = 0 \/ x = first + n => Follow(n, m, first, x)
<1> SUFFICES ASSUME NEW n \in Nat, NEW m \in Nat, NEW first \in Nat, NEW x \in Nat,
                    m = 0 \/ x = first + n
             PROVE  FramesTo(n, first) \o FramesTo(m, x) = FramesTo(n + m, first)
  BY DEF Follow
<1> DEFINE f == FramesTo(n, first)
           e == FramesTo(m, x)
           z == FramesTo(n + m, first)
<1>1. f \in Seq(Nat) /\ Len(f) = n /\ \A k \in 1..n : f[k] = first + k
  BY DEF FramesTo
<1>2. e \in Seq(Nat) /\ Len(e) = m /\ \A k \in 1..m : e[k] = x + k
  BY DEF FramesTo
<1>3. z \in Seq(Nat) /\ Len(z) = n + m /\ \A k \in 1..(n + m) : z[k] = first + k
  BY DEF FramesTo
<1>4. f \o e \in Seq(Nat) /\ Len(f \o e) = n + m
      /\ \A k \in 1..(n + m) : (f \o e)[k] = IF k <= n THEN f[k] ELSE e[k - n]
  <2> HIDE DEF f, e
  <2>1. f \in Seq(Nat) /\ e \in Seq(Nat) /\ Len(f) = n /\ Len(e) = m
    BY <1>1, <1>2
  <2> QED
    BY ONLY <2>1, ConcatProperties
<1> DEFINE j == f \o e
<1>5. \A k \in 1..(n + m) : j[k] = z[k]
  <2> HIDE DEF f, e, z
  <2>1. \A k \in 1..(n + m) : j[k] = IF k <= n THEN f[k] ELSE e[k - n]
    BY <1>4
  <2> HIDE DEF j
  <2> SUFFICES ASSUME NEW k \in 1..(n + m) PROVE j[k] = z[k]
    OBVIOUS
  <2>2. z[k] = first + k
    BY <1>3
  <2>3. CASE k <= n
    BY <1>1, <2>1, <2>2, <2>3
  <2>4. CASE k > n
    <3>1. m # 0 /\ k - n \in 1..m
      BY <2>4
    <3>2. e[k - n] = x + (k - n)
      BY <1>2, <3>1
    <3> QED
      BY <2>1, <2>2, <2>4, <3>1, <3>2
  <2> QED
    BY <2>3, <2>4
<1>6. j \in Seq(Nat) /\ Len(j) = Len(z) /\ z \in Seq(Nat) /\ Len(j) = n + m
  BY <1>3, <1>4
<1> HIDE DEF f, e, z, j
<1>7. j = z
  BY <1>5, <1>6, SeqEqual
<1> QED
  BY <1>7, Zenon DEF f, e, z, j

\* A block keeps what the blocks before made of the frames, and adds its own.
LEMMA ProcessedKeeps ==
    ASSUME RatesTyped, NEW c \in Nat, NEW limit \in Nat, NEW st,
           HasFiltered(st, c, limit, lag, src, dst)
    PROVE  HasFiltered(Processed(st, limit), c + 1, limit, lag, src, dst)
<1> DEFINE made == MadeAt(c, lag, src, dst)
           next == MadeAt(c + 1, lag, src, dst)
           e == Delay(src, dst)
           written == next - made
           skipped == Least(st.skip, written)
           n == Len(st.output)
           count == Least(written - skipped, RoomLeft(limit, n))
           came == [k \in 1..count |-> made + skipped + k]
<1>1. GoodRates(lag, src, dst)
  BY RatesAreGood
<1>2. made \in Nat /\ next \in Nat /\ made <= next
  <2>1. c + 1 \in Nat
    OBVIOUS
  <2> QED
    BY <1>1, <2>1, MadeTyped
<1>3. e \in Nat
  BY <1>1, DelayTyped DEF GoodRates
<1>4. Made(c) = made /\ Made(c + 1) = next
  BY DEF Made, MadeAt
<1>5. st.blocks = c
  BY DEF HasFiltered
<1>6. Processed(st, limit)
        = [blocks |-> c + 1, skip |-> st.skip - skipped, output |-> st.output \o came]
  <2>1. Processed(st, limit)
          = [blocks |-> st.blocks + 1, skip |-> st.skip - Least(st.skip, Made(st.blocks + 1) - Made(st.blocks)),
             output |-> st.output \o [k \in 1..Least((Made(st.blocks + 1) - Made(st.blocks))
                                                      - Least(st.skip, Made(st.blocks + 1) - Made(st.blocks)),
                                                     RoomLeft(limit, Len(st.output)))
                                      |-> Made(st.blocks) + Least(st.skip, Made(st.blocks + 1) - Made(st.blocks)) + k]]
    BY Zenon DEF Processed
  <2> QED
    BY <1>4, <1>5, <2>1, Zenon
<1> DEFINE old == Least(Emitted(c, lag, src, dst), limit)
           new == Least(Emitted(c + 1, lag, src, dst), limit)
<1>7. /\ st.skip = (IF e > made THEN e - made ELSE 0)
      /\ st.output = FramesTo(old, e)
      /\ Emitted(c, lag, src, dst) = (IF made > e THEN made - e ELSE 0)
      /\ Emitted(c + 1, lag, src, dst) = (IF next > e THEN next - e ELSE 0)
  BY DEF HasFiltered, Emitted
<1>a. old \in Nat /\ old = (IF made > e THEN (IF made - e < limit THEN made - e ELSE limit) ELSE 0)
  BY <1>2, <1>3, <1>7 DEF Least
<1>b. new \in Nat /\ new = (IF next > e THEN (IF next - e < limit THEN next - e ELSE limit) ELSE 0)
  BY <1>2, <1>3, <1>7 DEF Least
<1>8. n = old
  <2> HIDE DEF e, old
  <2>1. Len(FramesTo(old, e)) = old
    BY <1>a DEF FramesTo
  <2> QED
    BY <1>7, <2>1
<1> DEFINE sk == st.skip
<1>9. sk = (IF e > made THEN e - made ELSE 0)
  BY <1>7
<1>10. /\ skipped \in Nat /\ skipped = (IF sk < written THEN sk ELSE written)
       /\ sk - skipped = (IF e > next THEN e - next ELSE 0)
  <2> HIDE DEF made, next, e, sk
  <2>1. skipped = IF sk < written THEN sk ELSE written
    BY <1>2, <1>3, <1>9 DEF Least, sk
  <2> QED
    BY <1>2, <1>3, <1>9, <2>1
<1>11. /\ count \in Nat /\ old + count = new
       /\ count = 0 \/ made + skipped = e + old
  <2> HIDE DEF made, next, e, sk, skipped, old, new, n
  <2>0. limit \in Nat
    OBVIOUS
  <2>1. RoomLeft(limit, n) = (IF limit > old THEN limit - old ELSE 0)
    BY <1>8 DEF RoomLeft
  <2> DEFINE room == RoomLeft(limit, n)
  <2> HIDE DEF room
  <2>2. room = IF limit > old THEN limit - old ELSE 0
    BY <2>1 DEF room
  <2>3. count = IF written - skipped < room THEN written - skipped ELSE room
    BY <1>2, <1>10, <2>0, <2>2, <1>a DEF Least, room
  <2> HIDE DEF count
  <2> QED
    BY ONLY <2>0, <2>2, <2>3, <1>2, <1>3, <1>9, <1>10, <1>a, <1>b DEF written
<1>12. st.output \o came = FramesTo(new, e)
  <2> DEFINE x == made + skipped
             h == FramesTo(old, e)
  <2>1. x \in Nat /\ old \in Nat /\ count \in Nat /\ e \in Nat /\ (count = 0 \/ x = e + old)
    BY <1>2, <1>3, <1>a, <1>10, <1>11
  <2>2. came = FramesTo(count, x)
    BY DEF FramesTo
  <2>3. st.output = h
    BY <1>7
  <2> HIDE DEF x, old, new, count, e, came, made, skipped, h
  <2>4. Follow(old, count, e, x)
    <3>1. x \in Nat /\ old \in Nat /\ count \in Nat /\ e \in Nat
      BY <2>1
    <3>2. count = 0 \/ x = e + old
      BY <2>1
    <3> QED
      BY ONLY <3>1, <3>2, FramesFollow
  <2>5. old + count = new
    BY <1>11
  <2> QED
    BY <2>2, <2>3, <2>4, <2>5, Zenon DEF h, Follow
<1> HIDE DEF came, skipped, old, made, next, e, count
<1>13. sk - skipped = (IF Delay(src, dst) > MadeAt(c + 1, lag, src, dst)
                       THEN Delay(src, dst) - MadeAt(c + 1, lag, src, dst) ELSE 0)
  BY <1>10 DEF e, next
<1> DEFINE out == st.output \o came
<1>14. out = FramesTo(Least(Emitted(c + 1, lag, src, dst), limit), Delay(src, dst))
  BY <1>12 DEF e
<1> HIDE DEF out
<1>15. Processed(st, limit) = [blocks |-> c + 1, skip |-> sk - skipped, output |-> out]
  BY <1>6, Zenon DEF out
<1> HIDE DEF sk
<1> QED
  BY <1>13, <1>14, <1>15 DEF HasFiltered

\* g is what is filtered over the subsets of some positions, the highest last: the
\* recursion of FoldLeft.
FiltersOver(g, h, limit, P) ==
    g = [T \in P |-> IF T = {} THEN h ELSE Processed(g[T \ {Max(T)}], limit)]

\* There is such a function, by induction on the size of the subsets.
LEMMA FilterExists ==
    ASSUME NEW n \in Nat, NEW h, NEW limit PROVE \E g : FiltersOver(g, h, limit, SUBSET (1..n))
<1> DEFINE S == 1..n
           P(k) == {T \in SUBSET S : Cardinality(T) <= k}
           Bad == {k \in Nat : ~\E g : FiltersOver(g, h, limit, P(k))}
<1>a. IsFiniteSet(S)
  BY FS_Interval
<1>0. \A T \in SUBSET S : IsFiniteSet(T) /\ Cardinality(T) \in Nat /\ Cardinality(T) <= Cardinality(S)
  BY <1>a, FS_Subset, FS_CardinalityType
<1>1. SUFFICES Bad = {}
  <2>1. P(Cardinality(S)) = SUBSET S /\ Cardinality(S) \in Nat
    BY <1>0
  <2> QED
    BY <1>1, <2>1
<1>2. SUFFICES ASSUME Bad # {} PROVE FALSE
  OBVIOUS
<1>3. PICK m \in Bad : \A j \in Bad : m <= j
  BY <1>2, LeastNumber
<1>4. PICK g : m > 0 => FiltersOver(g, h, limit, P(m - 1))
  <2>1. m \in Nat /\ (m > 0 => m - 1 \in Nat /\ ~(m <= m - 1))
    BY <1>3
  <2>2. m > 0 => m - 1 \notin Bad
    BY <1>3, <2>1
  <2> QED
    BY <2>1, <2>2
<1> DEFINE f == [T \in P(m) |-> IF T = {} THEN h ELSE Processed(g[T \ {Max(T)}], limit)]
<1>5. ASSUME NEW T \in P(m), T # {} PROVE g[T \ {Max(T)}] = f[T \ {Max(T)}]
  <2> DEFINE U == T \ {Max(T)}
  <2>1. Max(T) \in T
    BY <1>5, HighestIsIn
  <2>2. U \in SUBSET S /\ Cardinality(U) = Cardinality(T) - 1 /\ Cardinality(U) \in Nat /\ Cardinality(T) <= m
    BY <1>0, <2>1, FS_RemoveElement
  <2>3. m > 0 /\ U \in P(m - 1) /\ U \in P(m) /\ m \in Nat
    BY <1>0, <1>3, <2>2
  <2> HIDE DEF U
  <2>4. g[U] = IF U = {} THEN h ELSE Processed(g[U \ {Max(U)}], limit)
    BY <1>4, <2>3 DEF FiltersOver
  <2> QED
    BY <2>3, <2>4 DEF U
<1>6. f = [T \in P(m) |-> IF T = {} THEN h ELSE Processed(f[T \ {Max(T)}], limit)]
  <2>1. \A T \in P(m) : (IF T = {} THEN h ELSE Processed(g[T \ {Max(T)}], limit))
                         = IF T = {} THEN h ELSE Processed(f[T \ {Max(T)}], limit)
    BY <1>5
  <2> QED
    BY <2>1
<1> HIDE DEF f
<1>7. FiltersOver(f, h, limit, P(m))
  BY <1>6 DEF FiltersOver
<1> QED
  BY <1>3, <1>7

\* The states that the blocks go through: the last of them is what FoldLeft makes.
LEMMA FilteredRuns ==
    ASSUME NEW n \in Nat, NEW limit
    PROVE  \E r : /\ r[0] = [blocks |-> blocks, skip |-> skip, output |-> output]
                  /\ \A k \in 1..n : r[k] = Processed(r[k - 1], limit)
                  /\ Filtered(n, limit) = r[n]
<1> DEFINE h == [blocks |-> blocks, skip |-> skip, output |-> output]
           q == [k \in 1..n |-> k]
           g == CHOOSE g : FiltersOver(g, h, limit, SUBSET DOMAIN q)
<1>0. DOMAIN q = 1..n
  OBVIOUS
<1>1. FiltersOver(g, h, limit, SUBSET (1..n))
  BY <1>0, FilterExists
<1>2. Filtered(n, limit) = g[1..n]
  <2>1. Filtered(n, limit) = g[DOMAIN q]
    BY ONLY DEF Filtered, FoldLeft, MapThenFoldSet, FiltersOver
  <2> QED
    BY <1>0, <2>1
<1> HIDE DEF g, h
<1> DEFINE r == [k \in 0..n |-> g[1..k]]
<1>3. r[0] = h
  <2>1. 1..0 = {} /\ {} \in SUBSET (1..n)
    OBVIOUS
  <2>2. g[{}] = h
    BY <1>1 DEF FiltersOver
  <2> QED
    BY <2>1, <2>2
<1>4. ASSUME NEW k \in 1..n PROVE r[k] = Processed(r[k - 1], limit)
  <2>0. n \in Nat /\ k \in 1..n
    OBVIOUS
  <2>1. (1..k) \in SUBSET (1..n) /\ k \in 1..k /\ k - 1 \in 0..n /\ k \in 0..n
    BY ONLY <2>0
  <2>2. Max(1..k) \in 1..k /\ \A j \in 1..k : j <= Max(1..k)
    BY <2>1, HighestIsIn
  <2>3. Max(1..k) = k
    BY <2>2
  <2>4. (1..k) \ {k} = 1..(k - 1)
    OBVIOUS
  <2>5. g[1..k] = Processed(g[1..(k - 1)], limit)
    BY <1>1, <2>1, <2>3, <2>4 DEF FiltersOver
  <2> QED
    BY <2>1, <2>5
<1>5. r[n] = g[1..n]
  OBVIOUS
<1> HIDE DEF r
<1> QED
  BY <1>2, <1>3, <1>4, <1>5 DEF h

\* So do n blocks.
LEMMA FilteredKeeps ==
    ASSUME RatesTyped, NEW n \in Nat, NEW limit \in Nat,
           HasFiltered([blocks |-> blocks, skip |-> skip, output |-> output], blocks, limit, lag, src, dst)
    PROVE  HasFiltered(Filtered(n, limit), blocks + n, limit, lag, src, dst)
<1>1. PICK r : /\ r[0] = [blocks |-> blocks, skip |-> skip, output |-> output]
               /\ \A k \in 1..n : r[k] = Processed(r[k - 1], limit)
               /\ Filtered(n, limit) = r[n]
  BY FilteredRuns
<1> DEFINE Has(k) == HasFiltered(r[k], blocks + k, limit, lag, src, dst)
           Bad == {k \in 0..n : ~Has(k)}
<1>2. SUFFICES Bad = {}
  <2>1. Has(n)
    BY <1>2
  <2> QED
    BY <1>1, <2>1
<1>3. SUFFICES ASSUME Bad # {} PROVE FALSE
  OBVIOUS
<1>4. PICK m \in Bad : \A j \in Bad : m <= j
  <2>1. Bad \in SUBSET Nat
    OBVIOUS
  <2> QED
    BY <1>3, <2>1, LeastNumber
<1>5. blocks \in Nat /\ blocks + 0 = blocks
  BY DEF RatesTyped
<1>6. Has(0)
  BY <1>1, <1>5, Zenon
<1>7. m # 0
  BY <1>4, <1>6
<1>8. m \in 1..n /\ m - 1 \in 0..n /\ ~(m <= m - 1) /\ blocks + (m - 1) \in Nat
      /\ (blocks + (m - 1)) + 1 = blocks + m
  BY <1>4, <1>5, <1>7
<1>9. Has(m - 1)
  BY <1>4, <1>8
<1>10. HasFiltered(Processed(r[m - 1], limit), (blocks + (m - 1)) + 1, limit, lag, src, dst)
  BY <1>8, <1>9, ProcessedKeeps
<1>11. Has(m)
  <2>1. r[m] = Processed(r[m - 1], limit)
    BY <1>1, <1>8
  <2> QED
    BY <1>8, <1>10, <2>1, Zenon
<1> QED
  BY <1>4, <1>11

\* What has come out is a number of frames.
LEMMA EmittedTyped ==
    ASSUME NEW l, NEW s, NEW d, GoodRates(l, s, d), NEW c \in Nat
    PROVE  Emitted(c, l, s, d) \in Nat
<1> DEFINE m == MadeAt(c, l, s, d)
           e == Delay(s, d)
<1>1. m \in Nat
  BY MadeTyped
<1>2. e \in Nat
  BY DelayTyped DEF GoodRates
<1>3. Emitted(c, l, s, d) = IF m > e THEN m - e ELSE 0
  BY DEF Emitted
<1> HIDE DEF m, e
<1> QED
  BY <1>1, <1>2, <1>3

\* What has been filtered so far counts as filtered under any limit that suffices.
LEMMA AnyLimit ==
    ASSUME NEW st, NEW c, NEW one, NEW other, NEW l, NEW s, NEW d,
           HasFiltered(st, c, one, l, s, d),
           Least(Emitted(c, l, s, d), one) = Least(Emitted(c, l, s, d), other)
    PROVE  HasFiltered(st, c, other, l, s, d)
BY DEF HasFiltered

\* WantedAt is Wanted.
LEMMA SameFrames == WantedAt(inputFrames, src, dst) = Wanted(inputFrames)
BY DEF WantedAt, Wanted

\* The next chunk: its complete blocks are filtered, and the rest waits.
LEMMA PushKeeps ==
    ASSUME ResamplerInv, NEW n \in Nat, TryPush(n) PROVE ResamplerInv'
<1>1. /\ src' = src /\ dst' = dst /\ lag' = lag /\ flush' = "open" /\ flush = "open"
      /\ inputFrames' = inputFrames + n
  BY DEF TryPush
<1>2. RatesTyped
  BY DEF ResamplerInv
<1>3. inputFrames \in Nat /\ inputFrames' \in Nat /\ pendingFrames \in Nat /\ blocks \in Nat
  BY <1>1, <1>2 DEF RatesTyped
<1>4. CASE src = dst
  <2>0. 0 \in Nat /\ inputFrames = 0 + inputFrames
    BY <1>3
  <2>1. Follow(inputFrames, n, 0, inputFrames)
    BY <1>3, <2>0, FramesFollow
  <2>2. /\ output' = output \o [k \in 1..n |-> inputFrames + k]
        /\ UNCHANGED <<pendingFrames, blocks>>
    BY <1>4 DEF TryPush
  <2>3. output = FramesTo(inputFrames, 0)
    BY <1>4 DEF ResamplerInv, PassesThrough
  <2>4. output' = output \o FramesTo(n, inputFrames)
    BY <2>2, Zenon DEF FramesTo
  <2>5. output' = FramesTo(inputFrames + n, 0)
    BY <2>1, <2>3, <2>4, Zenon DEF Follow
  <2>6. PassesThrough'
    BY <1>1, <2>5, Zenon DEF PassesThrough
  <2>7. RatesTyped'
    BY <1>1, <1>2, <1>3, <2>2 DEF RatesTyped
  <2>8. AllBlocksFiltered' /\ AllIsFlushed'
    BY <1>1, <1>4 DEF AllBlocksFiltered, AllIsFlushed
  <2> QED
    BY <2>6, <2>7, <2>8 DEF ResamplerInv
<1>5. CASE src # dst
  <2> DEFINE a == pendingFrames + n
             j == a \div Block
             rest == a % Block
             limit == WantedAt(inputFrames + n, src, dst)
             st == Filtered(j, limit)
  <2>1. GoodRates(lag, src, dst)
    BY <1>2, RatesAreGood
  <2>2. a \in Nat /\ j \in Nat /\ rest \in Nat /\ rest < Block /\ a = Block * j + rest
    <3>1. a \in Nat /\ Block \in Nat \ {0}
      BY <1>3, ResamplerConstants
    <3> HIDE DEF a
    <3>2. PICK q, r \in Nat : a \div Block = q /\ a % Block = r /\ r < Block /\ a = Block * q + r
      BY <3>1, ModIs
    <3>3. j = q /\ rest = r
      BY <3>2
    <3> HIDE DEF j, rest
    <3> QED
      BY <3>1, <3>2, <3>3
  <2>3. /\ pendingFrames' = rest
        /\ blocks' = st.blocks /\ skip' = st.skip /\ output' = st.output
    <3>1. Wanted(inputFrames') = limit
      BY <1>1 DEF Wanted, WantedAt
    <3>2. pendingFrames' = rest /\ Becomes(Filtered(j, Wanted(inputFrames')))
      BY <1>5 DEF TryPush
    <3> QED
      BY <3>1, <3>2, Zenon DEF Becomes
  <2>4. /\ inputFrames = Block * blocks + pendingFrames /\ pendingFrames < Block
        /\ HasFiltered([blocks |-> blocks, skip |-> skip, output |-> output], blocks,
                       Emitted(blocks, lag, src, dst), lag, src, dst)
    BY <1>1, <1>5 DEF ResamplerInv, AllBlocksFiltered
  <2>5. limit \in Nat
    BY <1>1, <1>3, <2>1, WantedTyped DEF GoodRates
  <2> DEFINE e == Emitted(blocks, lag, src, dst)
             c == blocks + j
             f == Emitted(c, lag, src, dst)
  <2>6. e \in Nat /\ e <= limit
    <3> HIDE DEF j, rest
    <3>1. Block * blocks <= inputFrames + n /\ inputFrames + n \in Nat
      <4>1. Block * blocks \in Nat
        BY <1>3, ResamplerConstants
      <4> QED
        BY <1>3, <2>4, <4>1
    <3> QED
      BY <1>3, <1>5, <2>1, <3>1, NothingHeldBack
  <2>7. /\ c \in Nat /\ f \in Nat /\ f <= limit
        /\ inputFrames + n = Block * c + rest
    <3> HIDE DEF j, rest
    <3>1. Block * c = Block * blocks + Block * j /\ Block * blocks \in Nat /\ Block * j \in Nat
      BY <1>3, <2>2, ResamplerConstants
    <3>2. inputFrames + n = Block * c + rest
      BY <1>3, <2>2, <2>4, <3>1 DEF a
    <3>3. Block * c <= inputFrames + n /\ inputFrames + n \in Nat /\ c \in Nat
      BY <1>3, <2>2, <3>1, <3>2
    <3> QED
      BY <1>5, <2>1, <3>2, <3>3, NothingHeldBack
  <2> HIDE DEF limit, st, e, f
  <2> HIDE DEF j, rest, a, c
  <2>8. Least(e, e) = Least(e, limit) /\ Least(f, limit) = Least(f, f)
    BY <2>5, <2>6, <2>7 DEF Least
  <2>9. HasFiltered([blocks |-> blocks, skip |-> skip, output |-> output], blocks, limit, lag, src, dst)
    BY <2>4, <2>8, AnyLimit DEF e
  <2>10. HasFiltered(st, c, limit, lag, src, dst)
    BY <1>2, <2>2, <2>5, <2>9, FilteredKeeps DEF st, c
  <2>11. HasFiltered(st, c, f, lag, src, dst)
    BY <2>8, <2>10, AnyLimit DEF f
  <2>12. blocks' = c
    BY <2>3, <2>11 DEF HasFiltered
  <2>13. HasFiltered([blocks |-> blocks', skip |-> skip', output |-> output'], c, f, lag, src, dst)
    BY <2>3, <2>11 DEF HasFiltered
  <2>14. AllBlocksFiltered'
    <3>1. inputFrames' = Block * blocks' + pendingFrames' /\ pendingFrames' < Block
      BY <1>1, <2>2, <2>3, <2>7, <2>12
    <3>2. HasFiltered([blocks |-> blocks', skip |-> skip', output |-> output'], blocks',
                      Emitted(blocks', lag', src', dst'), lag', src', dst')
      BY <1>1, <2>12, <2>13, Zenon DEF f
    <3> QED
      BY <3>1, <3>2 DEF AllBlocksFiltered
  <2>15. RatesTyped'
    BY <1>1, <1>2, <1>3, <2>2, <2>3, <2>7, <2>12 DEF RatesTyped
  <2>16. PassesThrough' /\ AllIsFlushed'
    BY <1>1, <1>5 DEF PassesThrough, AllIsFlushed
  <2> QED
    BY <2>14, <2>15, <2>16 DEF ResamplerInv
<1> QED
  BY <1>4, <1>5

\* The flush: after the blocks that it has, and before the last of them at the latest,
\* all that is due has come out.
LEMMA FlushedInTime ==
    ASSUME ResamplerInv, src # dst, flush = "open"
    PROVE  /\ \A n \in Nat : HasFiltered(Filtered(1 + n, Wanted(inputFrames)), blocks + (1 + n),
                                         Wanted(inputFrames), lag, src, dst)
           /\ Wanted(inputFrames) \in Nat
           /\ FlushBlocks - 1 \in Nat
           /\ Len(Filtered(1 + (FlushBlocks - 1), Wanted(inputFrames)).output) = Wanted(inputFrames)
<1> DEFINE due == Wanted(inputFrames)
           e == Emitted(blocks, lag, src, dst)
<1>1. RatesTyped
  BY DEF ResamplerInv
<1>2. inputFrames \in Nat /\ pendingFrames \in Nat /\ blocks \in Nat
  BY <1>1 DEF RatesTyped
<1>3. GoodRates(lag, src, dst)
  BY <1>1, RatesAreGood
<1>4. /\ inputFrames = Block * blocks + pendingFrames /\ pendingFrames < Block
      /\ HasFiltered([blocks |-> blocks, skip |-> skip, output |-> output], blocks,
                     Emitted(blocks, lag, src, dst), lag, src, dst)
  BY DEF ResamplerInv, AllBlocksFiltered
<1>5. due = WantedAt(inputFrames, src, dst) /\ due \in Nat
  BY <1>2, <1>3, SameFrames, WantedTyped DEF GoodRates
<1>6. e \in Nat /\ e <= due
  <2>1. Block * blocks <= inputFrames
    <3>1. Block * blocks \in Nat
      BY <1>2, ResamplerConstants
    <3> QED
      BY <1>2, <1>4, <3>1
  <2> QED
    BY <1>2, <1>3, <1>5, <2>1, NothingHeldBack
<1> HIDE DEF due, e
<1>7. Least(e, e) = Least(e, due)
  BY <1>5, <1>6 DEF Least
<1>8. HasFiltered([blocks |-> blocks, skip |-> skip, output |-> output], blocks, due, lag, src, dst)
  BY <1>4, <1>7, AnyLimit DEF e
<1>9. ASSUME NEW n \in Nat
      PROVE  HasFiltered(Filtered(1 + n, due), blocks + (1 + n), due, lag, src, dst)
  <2>1. 1 + n \in Nat
    OBVIOUS
  <2> QED
    BY <1>1, <1>5, <1>8, <2>1, FilteredKeeps
<1> DEFINE g == CeilDiv(Delay(src, dst) * src, dst)
           k == CeilDiv(g, Block)
           m == FlushBlocks - 1
<1>10. g \in Nat /\ Delay(src, dst) * src <= dst * g /\ k \in Nat /\ g <= Block * k
  <2>1. Delay(src, dst) * src \in Nat
    BY <1>3, DelayTyped DEF GoodRates
  <2>2. g \in Nat /\ Delay(src, dst) * src <= dst * g
    BY <1>3, <2>1, CeilDivIs DEF GoodRates
  <2> HIDE DEF g
  <2> QED
    BY <2>2, ResamplerConstants, CeilDivIs
<1>11. m = k + 1 /\ m \in Nat /\ blocks + (1 + m) = blocks + k + 2
  <2>1. FlushBlocks = k + 2
    BY DEF FlushBlocks
  <2> HIDE DEF k
  <2> QED
    BY <1>2, <1>10, <2>1
<1> HIDE DEF g, k, m
<1>12. Emitted(blocks + k + 2, lag, src, dst) >= due
  BY <1>2, <1>3, <1>4, <1>5, <1>10, EnoughBlocks
<1>13. HasFiltered(Filtered(1 + m, due), blocks + k + 2, due, lag, src, dst)
  <2>1. HasFiltered(Filtered(1 + m, due), blocks + (1 + m), due, lag, src, dst)
    BY <1>9, <1>11
  <2> QED
    BY <1>11, <2>1, Zenon
<1>14. Least(Emitted(blocks + k + 2, lag, src, dst), due) = due
  <2>1. Emitted(blocks + k + 2, lag, src, dst) \in Nat
    <3>1. blocks + k + 2 \in Nat
      BY <1>2, <1>10
    <3> QED
      BY <1>3, <3>1, EmittedTyped
  <2> QED
    BY <1>5, <1>12, <2>1 DEF Least
<1>15. Len(Filtered(1 + m, due).output) = due
  <2>1. Filtered(1 + m, due).output = FramesTo(due, Delay(src, dst))
    BY <1>13, <1>14, Zenon DEF HasFiltered
  <2> QED
    BY <1>5, <2>1 DEF FramesTo
<1> QED
  BY <1>5, <1>9, <1>11, <1>15 DEF due, m

\* Finish flushes all that is due.
LEMMA FinishKeeps == ASSUME ResamplerInv, FinishResampling PROVE ResamplerInv'
<1>1. /\ src' = src /\ dst' = dst /\ lag' = lag /\ flush = "open" /\ pendingFrames' = 0
      /\ inputFrames' = inputFrames
  BY DEF FinishResampling
<1>2. RatesTyped
  BY DEF ResamplerInv
<1>3. inputFrames \in Nat /\ pendingFrames \in Nat /\ blocks \in Nat
  BY <1>2 DEF RatesTyped
<1>4. CASE src = dst \/ inputFrames = 0
  <2>1. flush' = "flushed" /\ UNCHANGED <<blocks, skip, output>>
    BY <1>4 DEF FinishResampling
  <2>2. RatesTyped'
    BY <1>1, <1>2, <2>1 DEF RatesTyped
  <2>3. PassesThrough'
    BY <1>1, <2>1 DEF ResamplerInv, PassesThrough
  <2>4. AllBlocksFiltered'
    BY <2>1 DEF AllBlocksFiltered
  <2>5. AllIsFlushed'
    <3> SUFFICES ASSUME src # dst
                 PROVE  output = FramesTo(WantedAt(inputFrames, src, dst), Delay(src, dst))
      BY <1>1, <2>1 DEF AllIsFlushed
    <3> DEFINE e == Emitted(blocks, lag, src, dst)
               w == WantedAt(inputFrames, src, dst)
    <3>1. inputFrames = 0
      BY <1>4
    <3>2. GoodRates(lag, src, dst)
      BY <1>2, RatesAreGood
    <3>3. w = 0
      <4>1. src \in Nat \ {0} /\ dst \in Nat \ {0} /\ 0 * dst = 0
        BY <3>2 DEF GoodRates
      <4>2. w \in Nat /\ src * w <= 0 * dst + src \div 2 /\ src \div 2 \in Nat /\ src \div 2 < src
        BY <1>3, <3>1, <4>1, WantedTyped
      <4> HIDE DEF w
      <4>3. src * w < src * 1
        BY <4>1, <4>2
      <4> QED
        BY <4>1, <4>2, <4>3, Cancels
    <3>4. inputFrames = Block * blocks + pendingFrames
      BY <1>1 DEF ResamplerInv, AllBlocksFiltered
    <3>5. Block * blocks \in Nat
      BY <1>3, ResamplerConstants
    <3>6. Block * blocks <= inputFrames
      BY <1>3, <3>4, <3>5
    <3>7. e \in Nat /\ e <= w
      BY <1>3, <3>2, <3>6, NothingHeldBack
    <3>8. output = FramesTo(Least(e, e), Delay(src, dst))
      BY <1>1 DEF ResamplerInv, AllBlocksFiltered, HasFiltered
    <3> HIDE DEF e, w
    <3>9. Least(e, e) = w
      BY <3>3, <3>7 DEF Least
    <3> QED
      BY <3>8, <3>9, Zenon DEF w
  <2> QED
    BY <2>2, <2>3, <2>4, <2>5 DEF ResamplerInv
<1>5. CASE src # dst /\ inputFrames # 0
  <2> DEFINE due == Wanted(inputFrames)
             enough == {n \in 0..FlushBlocks - 1 : Len(Filtered(1 + n, due).output) = due}
             c == CHOOSE n \in enough : \A m \in enough : n <= m
  <2>1. /\ \A n \in Nat : HasFiltered(Filtered(1 + n, due), blocks + (1 + n), due, lag, src, dst)
        /\ due \in Nat /\ FlushBlocks - 1 \in Nat
        /\ Len(Filtered(1 + (FlushBlocks - 1), due).output) = due
    BY <1>1, <1>5, FlushedInTime
  <2>2. enough # {} /\ enough \in SUBSET Nat
    <3>1. FlushBlocks - 1 \in 0..FlushBlocks - 1
      BY <2>1
    <3>2. FlushBlocks - 1 \in enough
      BY <2>1, <3>1
    <3> QED
      BY <3>2
  <2>3. c \in enough
    <3> HIDE DEF enough
    <3>1. \E n \in enough : \A m \in enough : n <= m
      BY <2>2, LeastNumber
    <3> QED
      BY <3>1
  <2>4. flush' = "flushed" /\ Becomes(Filtered(1 + c, due))
    <3>1. enough # {} /\ inputFrames > 0
      BY <1>3, <1>5, <2>2
    <3> QED
      BY <1>5, <3>1 DEF FinishResampling
  <2>5. c \in Nat /\ Len(Filtered(1 + c, due).output) = due
    BY <2>2, <2>3
  <2> HIDE DEF c
  <2> DEFINE st == Filtered(1 + c, due)
             e == Emitted(blocks + (1 + c), lag, src, dst)
  <2>6. HasFiltered(st, blocks + (1 + c), due, lag, src, dst)
    BY <2>1, <2>5
  <2>7. blocks' = st.blocks /\ output' = st.output
    BY <2>4 DEF Becomes
  <2> HIDE DEF due
  <2>8. blocks' \in Nat
    <3>1. blocks' = blocks + (1 + c)
      BY <2>6, <2>7 DEF HasFiltered
    <3> QED
      BY <1>3, <2>5, <3>1
  <2>9. output' = FramesTo(due, Delay(src, dst))
    <3>1. st.output = FramesTo(Least(e, due), Delay(src, dst))
      BY <2>6, Zenon DEF HasFiltered
    <3>2. GoodRates(lag, src, dst) /\ blocks + (1 + c) \in Nat
      BY <1>2, <1>3, <2>5, RatesAreGood
    <3>3. e \in Nat
      BY <3>2, EmittedTyped
    <3> HIDE DEF e
    <3>4. Least(e, due) \in Nat
      BY <2>1, <3>3 DEF Least
    <3> DEFINE j == Least(e, due)
    <3>5. Len(st.output) = due
      BY <2>5
    <3> HIDE DEF j, st
    <3>6. Len(FramesTo(j, Delay(src, dst))) = j
      BY <3>4 DEF FramesTo, j
    <3>7. j = due
      BY <3>1, <3>5, <3>6 DEF j
    <3> QED
      BY <2>7, <3>1, <3>7, Zenon DEF j
  <2>10. RatesTyped'
    BY <1>1, <1>2, <2>4, <2>8 DEF RatesTyped
  <2>11. PassesThrough' /\ AllBlocksFiltered'
    BY <1>1, <1>5, <2>4 DEF PassesThrough, AllBlocksFiltered
  <2>12. AllIsFlushed'
    <3>1. due = WantedAt(inputFrames, src, dst)
      BY SameFrames DEF due
    <3> QED
      BY <1>1, <2>9, <3>1, Zenon DEF AllIsFlushed
  <2> QED
    BY <2>10, <2>11, <2>12 DEF ResamplerInv
<1> QED
  BY <1>4, <1>5

\* However the input is split, all complete blocks are filtered and nothing is held
\* back, until finish, that flushes what is due and no more.
THEOREM ResamplerInvariantHolds == ResamplerSpec => []ResamplerInv
<1>1. ResamplerInit => ResamplerInv
  <2> SUFFICES ASSUME ResamplerInit PROVE ResamplerInv
    OBVIOUS
  <2>1. RatesTyped
    <3>1. PICK rates \in Rates : src = rates[1] /\ dst = rates[2]
      BY DEF ResamplerInit
    <3>2. rates = <<src, dst>>
      BY <3>1, ResamplerAssumption
    <3> QED
      BY <3>1, <3>2 DEF ResamplerInit, RatesTyped
  <2>2. PassesThrough
    BY DEF ResamplerInit, PassesThrough, FramesTo
  <2>3. AllIsFlushed
    BY DEF ResamplerInit, AllIsFlushed
  <2>4. AllBlocksFiltered
    <3> SUFFICES ASSUME src # dst PROVE AllBlocksFiltered
      BY DEF AllBlocksFiltered
    <3>1. GoodRates(lag, src, dst)
      BY <2>1, RatesAreGood
    <3>2. MadeAt(0, lag, src, dst) = 0
      BY <3>1, ResamplerConstants DEF MadeAt, GoodRates
    <3>3. Delay(src, dst) \in Nat
      BY <3>1, DelayTyped DEF GoodRates
    <3>4. Emitted(0, lag, src, dst) = 0 /\ Least(0, 0) = 0
      BY <3>2, <3>3 DEF Emitted, Least
    <3>5. skip = (IF Delay(src, dst) > 0 THEN Delay(src, dst) - 0 ELSE 0)
      BY <3>3 DEF ResamplerInit
    <3>6. output = FramesTo(0, Delay(src, dst))
      BY DEF ResamplerInit, FramesTo
    <3>7. blocks = 0 /\ inputFrames = 0 /\ pendingFrames = 0
      BY DEF ResamplerInit
    <3>8. inputFrames = Block * blocks + pendingFrames /\ pendingFrames < Block
      BY <3>7, ResamplerConstants
    <3>9. HasFiltered([blocks |-> blocks, skip |-> skip, output |-> output], blocks,
                      Emitted(blocks, lag, src, dst), lag, src, dst)
      BY <3>2, <3>4, <3>5, <3>6, <3>7 DEF HasFiltered
    <3> QED
      BY <3>8, <3>9 DEF AllBlocksFiltered
  <2> QED
    BY <2>1, <2>2, <2>3, <2>4 DEF ResamplerInv
<1>2. ResamplerInv /\ [ResamplerNext]_resamplerVars => ResamplerInv'
  <2> SUFFICES ASSUME ResamplerInv, [ResamplerNext]_resamplerVars PROVE ResamplerInv'
    OBVIOUS
  <2>1. CASE FinishResampling
    BY <2>1, FinishKeeps
  <2>2. ASSUME NEW n \in 0..MaxFrames, TryPush(n) PROVE ResamplerInv'
    BY <2>2, PushKeeps
  <2>3. CASE UNCHANGED resamplerVars
    <3>1. UNCHANGED <<src, dst, lag, inputFrames, pendingFrames, blocks, skip, output, flush>>
      BY <2>3 DEF resamplerVars
    <3>2. RatesTyped' /\ PassesThrough'
      BY <3>1 DEF ResamplerInv, RatesTyped, PassesThrough
    <3>3. AllBlocksFiltered'
      BY <3>1 DEF ResamplerInv, AllBlocksFiltered
    <3>4. AllIsFlushed'
      BY <3>1 DEF ResamplerInv, AllIsFlushed
    <3> QED
      BY <3>2, <3>3, <3>4 DEF ResamplerInv
  <2> QED
    BY <2>1, <2>2, <2>3 DEF ResamplerNext
<1> QED
  BY <1>1, <1>2, PTL DEF ResamplerSpec

\* The frames that come out are those after the delay, none lost or repeated, never
\* more than are due, and with finish all that are due.
THEOREM ResamplingIsExact == ResamplerSpec => []ResampledExactly
<1>1. ResamplerInv => ResampledExactly
  <2> SUFFICES ASSUME ResamplerInv PROVE ResampledExactly
    OBVIOUS
  <2> DEFINE first == IF src = dst THEN 0 ELSE Delay(src, dst)
             w == WantedAt(inputFrames, src, dst)
  <2>1. GoodRates(lag, src, dst) /\ inputFrames \in Nat /\ pendingFrames \in Nat /\ blocks \in Nat
        /\ flush \in {"open", "flushed"}
    BY RatesAreGood DEF ResamplerInv, RatesTyped
  <2>2. src \in Nat \ {0} /\ dst \in Nat \ {0}
    BY <2>1 DEF GoodRates
  <2>3. /\ w \in Nat /\ src * w <= inputFrames * dst + src \div 2 /\ src \div 2 \in Nat /\ src \div 2 < src
        /\ inputFrames * dst + src \div 2 < src * (w + 1)
    BY <2>1, <2>2, WantedTyped
  <2>4. w = Wanted(inputFrames)
    BY SameFrames
  <2> HIDE DEF w
  <2>5. \E n \in Nat : output = FramesTo(n, first) /\ n <= w /\ (flush = "flushed" => n = w)
    <3>1. CASE src = dst
      <4>1. inputFrames * dst = src * inputFrames /\ src * (inputFrames + 1) = src * inputFrames + src
            /\ src * inputFrames \in Nat
        BY <2>1, <2>2, <3>1
      <4>2. src * w < src * (inputFrames + 1) /\ src * inputFrames < src * (w + 1)
        <5>1. src * w \in Nat /\ src * (w + 1) \in Nat
          BY <2>2, <2>3
        <5> QED
          BY <2>2, <2>3, <4>1, <5>1
      <4>3. w < inputFrames + 1 /\ inputFrames < w + 1
        BY <2>1, <2>2, <2>3, <4>2, Cancels
      <4>4. w = inputFrames
        BY <2>1, <2>3, <4>3
      <4>5. output = FramesTo(inputFrames, 0)
        BY <3>1 DEF ResamplerInv, PassesThrough
      <4> QED
        BY <2>1, <3>1, <4>4, <4>5
    <3>2. CASE src # dst /\ flush = "open"
      <4> DEFINE e == Emitted(blocks, lag, src, dst)
      <4>1. inputFrames = Block * blocks + pendingFrames /\ output = FramesTo(Least(e, e), Delay(src, dst))
        BY <3>2 DEF ResamplerInv, AllBlocksFiltered, HasFiltered
      <4>2. Block * blocks <= inputFrames
        <5>1. Block * blocks \in Nat
          BY <2>1, ResamplerConstants
        <5> QED
          BY <2>1, <4>1, <5>1
      <4>3. e \in Nat /\ e <= w
        BY <2>1, <3>2, <4>2, NothingHeldBack DEF w
      <4> HIDE DEF e
      <4>4. Least(e, e) = e
        BY DEF Least
      <4>5. output = FramesTo(e, first)
        BY <3>2, <4>1, <4>4
      <4>6. flush # "flushed"
        BY <3>2
      <4> QED
        BY <4>3, <4>5, <4>6
    <3>3. CASE src # dst /\ flush = "flushed"
      <4>1. output = FramesTo(w, first)
        BY <3>3 DEF ResamplerInv, AllIsFlushed, w
      <4> QED
        BY <2>3, <4>1
    <3> QED
      BY <2>1, <3>1, <3>2, <3>3
  <2>6. PICK n \in Nat : output = FramesTo(n, first) /\ n <= w /\ (flush = "flushed" => n = w)
    BY <2>5
  <2> HIDE DEF first
  <2>7. Len(output) = n
    BY <2>6 DEF FramesTo
  <2>8. output = [k \in 1..Len(output) |-> first + k]
    BY <2>6, <2>7, Zenon DEF FramesTo
  <2> QED
    BY <2>1, <2>4, <2>6, <2>7, <2>8 DEF ResampledExactly, first
<1> QED
  BY <1>1, ResamplerInvariantHolds, PTL
-----------------------------------------------------------------------------
(* The parser of server-sent events.                                        *)
Stops == {"final", "error"}

\* What an event is taken for, and what the events of a text say together.
Before(t, k) == Max({0} \cup {e \in EventEnds(t) : e < k})
EventAt(t, k) == SseEvent(<<>>, SubSeq(t, 1 + Before(t, k), k - 1))
DeltaAt(t, k) == IF k \in EventEnds(t) THEN EventAt(t, k).partial ELSE <<>>
DeltasTo(t, k) == FlattenSeq([j \in 1..k - 1 |-> DeltaAt(t, j)])

\* What the whole text says when this is its last event.
SaidBy(event) ==
    [result |-> IF event.result \in Stops THEN event.result ELSE "unfinished", partial |-> event.partial]

\* The text begins with another one.
StartsText(a, t) == Len(a) <= Len(t) /\ \A k \in 1..Len(a) : t[k] = a[k]

\* So far the text has events that end in it, the last of them at f; none is the final text or
\* an error, and p is what they say.
SaysSoFar(t, f, p) ==
    /\ f \in 0..Len(t) /\ (f # 0 => f \in EventEnds(t))
    /\ \A e \in EventEnds(t) : e <= Len(t) => e <= f /\ EventAt(t, e).result \notin Stops
    /\ p = DeltasTo(t, Len(t) + 1)

\* A position between two bytes that does not part CR from LF.
Between(w, k) == k # 0 /\ w[k] = CR => k < Len(w) /\ w[k + 1] # LF

\* Of the bytes w the event at hand begins behind s and its present line behind l; the bytes up to a are
\* read and what they say is p.
Upto(w, k) == SubSeq(w, 1, k)
HasRead(w, s, l, a, p) ==
    /\ s \in 0..a /\ l \in s..a /\ a \in 0..Len(w)
    /\ Between(w, s) /\ Between(w, a)
    /\ (s # 0 => w[s] \in LineBreaks) /\ (l # s => w[l] \in LineBreaks)
    /\ \A k \in (l + 1)..a : w[k] \notin LineBreaks
    /\ Normalised(Upto(w, a)) = Normalised(Upto(w, s)) \o Normalised(SubSeq(w, s + 1, a))
    /\ SaysSoFar(Normalised(Upto(w, a)), Len(Normalised(Upto(w, s))), p)

\* Everything is read but a CR at the end.
AllButCr(w, a) == a = Len(w) \/ (a = Len(w) - 1 /\ w[Len(w)] = CR)

Parsers ==
    [pending : Seq(Byte), scan : Nat, lineStart : Nat, partial : Seq(Byte),
     result : {"none", "delta", "final", "error"}, changed : BOOLEAN]

\* Everything of v is read but a CR at the end; what was not handed out is pending in from.
Held(v, from) ==
    LET s == Len(v) - Len(from.pending)
    IN  /\ s \in Nat /\ from.pending = SubSeq(v, s + 1, Len(v))
        /\ HasRead(v, s, s + from.lineStart, s + from.scan, from.partial)
        /\ AllButCr(v, s + from.scan) /\ UnfinishedUtf8(from.pending)

\* Until the response is over the parser holds what it needs, then its outcome is what the response says.
ParserInv == parsed = Unparsed => Held(body, parser)
SseInv == body \in Seq(Byte) /\ parser \in Parsers /\ ParserInv /\ SseAsWhole
-----------------------------------------------------------------------------
\* A sequence of pieces with one more behind it.
LEMMA FlattenOneMore ==
    ASSUME NEW S, NEW n \in Nat, NEW f \in [1..n -> Seq(S)], NEW g, DOMAIN g = 1..(n + 1),
           g = [k \in 1..(n + 1) |-> g[k]], \A k \in 1..n : g[k] = f[k], g[n + 1] \in Seq(S)
    PROVE  FlattenSeq(g) = FlattenSeq(f) \o g[n + 1] /\ FlattenSeq(f) \in Seq(S) /\ FlattenSeq(g) \in Seq(S)
<1>1. f \in Seq(Seq(S)) /\ Len(f) = n
  OBVIOUS
<1>2. g \in Seq(Seq(S)) /\ Len(g) = n + 1
  <2>1. \A k \in 1..(n + 1) : g[k] \in Seq(S)
    <3>1. \A k \in 1..n : g[k] \in Seq(S)
      OBVIOUS
    <3>2. \A k \in 1..(n + 1) : k \in 1..n \/ k = n + 1
      OBVIOUS
    <3> QED
      BY <3>1, <3>2
  <2>2. g \in [1..(n + 1) -> Seq(S)]
    BY <2>1
  <2> QED
    BY <2>2
<1>3. g = Append(f, g[n + 1])
  <2> DEFINE h == Append(f, g[n + 1])
             e == g[n + 1]
  <2>1. h \in Seq(Seq(S)) /\ Len(h) = n + 1 /\ h[n + 1] = e /\ \A k \in 1..n : h[k] = f[k]
    BY <1>1, AppendProperties
  <2> HIDE DEF h
  <2>2. \A k \in 1..(n + 1) : h[k] = g[k]
    <3>1. \A k \in 1..(n + 1) : k \in 1..n \/ k = n + 1
      OBVIOUS
    <3> QED
      BY <2>1, <3>1
  <2> QED
    BY <1>2, <2>1, <2>2, SeqEqual DEF h
<1> DEFINE e == g[n + 1]
<1>4. FlattenSeq(Append(f, e)) = FlattenSeq(f) \o e /\ FlattenSeq(f) \in Seq(S)
  BY <1>1, FlattenAppend
<1>5. FlattenSeq(f) \o e \in Seq(S)
  BY <1>4
<1> QED
  BY <1>3, <1>4, <1>5

\* The pieces of what a body is made into.
NormalPiece(b, k) ==
    IF b[k] = CR THEN <<LF>> ELSE IF b[k] = LF /\ k > 1 /\ b[k - 1] = CR THEN <<>> ELSE <<b[k]>>
DataAt(b) == {k \in DOMAIN b : b[k] \notin LineBreaks}
DataPiece(b, k) ==
    IF k \in DataAt(b)
    THEN IF k - 1 \notin DataAt(b) /\ \E j \in DataAt(b) : j < k THEN <<LF, b[k]>> ELSE <<b[k]>>
    ELSE <<>>

\* The bytes of a line break are bytes, of no character.
LEMMA BytesTyped ==
    /\ CR \in Byte /\ LF \in Byte /\ CR # LF /\ LineBreaks = {CR, LF}
    /\ Lead \notin LineBreaks /\ Trail \notin LineBreaks
BY SseAssumption DEF LineBreaks

\* A sequence with one more byte.
LEMMA OneByteMore ==
    ASSUME NEW b \in Seq(Byte), NEW c \in Byte, NEW a, a = Append(b, c)
    PROVE  /\ Len(b) \in Nat /\ DOMAIN b = 1..Len(b) /\ \A k \in 1..Len(b) : b[k] \in Byte
           /\ a \in Seq(Byte) /\ Len(a) = Len(b) + 1 /\ DOMAIN a = 1..(Len(b) + 1) /\ a # <<>>
           /\ \A k \in 1..Len(b) : a[k] = b[k]
           /\ a[Len(b) + 1] = c
OBVIOUS

\* Of no bytes nothing is made.
LEMMA NoBytes == Normalised(<<>>) = <<>> /\ Data(<<>>) = <<>> /\ UnfinishedUtf8(<<>>) /\ <<>> \in Seq(Byte)
<1>1. \A f : f = [k \in DOMAIN <<>> |-> f[k]] => Len(f) = 0 /\ f = <<>>
  OBVIOUS
<1>2. FlattenSeq(<<>>) = <<>>
  BY DEF FlattenSeq
<1>3. Normalised(<<>>) = FlattenSeq([k \in DOMAIN <<>> |-> NormalPiece(<<>>, k)])
  BY DEF Normalised, NormalPiece
<1>4. Data(<<>>) = FlattenSeq([k \in DOMAIN <<>> |-> DataPiece(<<>>, k)])
  BY DEF Data, DataPiece, DataAt
<1>5. [k \in DOMAIN <<>> |-> NormalPiece(<<>>, k)] = <<>> /\ [k \in DOMAIN <<>> |-> DataPiece(<<>>, k)] = <<>>
  OBVIOUS
<1> QED
  BY <1>2, <1>3, <1>4, <1>5 DEF UnfinishedUtf8

\* The pieces are made of bytes.
LEMMA PiecesTyped ==
    ASSUME NEW b \in Seq(Byte), NEW k \in 1..Len(b)
    PROVE  NormalPiece(b, k) \in Seq(Byte) /\ DataPiece(b, k) \in Seq(Byte)
<1>1. b[k] \in Byte /\ LF \in Byte
  BY BytesTyped
<1>2. <<LF>> \in Seq(Byte) /\ <<>> \in Seq(Byte) /\ <<b[k]>> \in Seq(Byte) /\ <<LF, b[k]>> \in Seq(Byte)
  BY <1>1
<1> QED
  BY <1>2 DEF NormalPiece, DataPiece

\* What one byte more makes of it.
LEMMA NormalisedAppend ==
    ASSUME NEW b \in Seq(Byte), NEW c \in Byte
    PROVE  /\ Normalised(b) \in Seq(Byte)
           /\ Normalised(Append(b, c)) =
                Normalised(b) \o (IF c = CR THEN <<LF>>
                                  ELSE IF c = LF /\ Len(b) # 0 /\ b[Len(b)] = CR THEN <<>> ELSE <<c>>)
<1> DEFINE a == Append(b, c)
           n == Len(b)
           f == [k \in 1..n |-> NormalPiece(b, k)]
           g == [k \in 1..(n + 1) |-> NormalPiece(a, k)]
<1>1. /\ n \in Nat /\ DOMAIN b = 1..n /\ \A k \in 1..n : b[k] \in Byte
      /\ a \in Seq(Byte) /\ Len(a) = n + 1 /\ DOMAIN a = 1..(n + 1)
      /\ \A k \in 1..n : a[k] = b[k]
      /\ a[n + 1] = c
  BY OneByteMore
<1>2. Normalised(b) = FlattenSeq(f) /\ Normalised(a) = FlattenSeq(g)
  <2>1. Normalised(b) = FlattenSeq([k \in DOMAIN b |-> NormalPiece(b, k)])
    BY DEF Normalised, NormalPiece
  <2>2. Normalised(a) = FlattenSeq([k \in DOMAIN a |-> NormalPiece(a, k)])
    BY DEF Normalised, NormalPiece
  <2> QED
    BY ONLY <1>1, <2>1, <2>2
<1> HIDE DEF a
<1>3. f \in [1..n -> Seq(Byte)]
  BY PiecesTyped
<1>4. \A k \in 1..n : g[k] = f[k]
  <2> SUFFICES ASSUME NEW k \in 1..n PROVE NormalPiece(a, k) = NormalPiece(b, k)
    BY <1>1
  <2>1. a[k] = b[k] /\ (k > 1 => a[k - 1] = b[k - 1])
    BY <1>1
  <2> QED
    BY <2>1 DEF NormalPiece
<1>5. g[n + 1] = NormalPiece(a, n + 1) /\ g[n + 1] \in Seq(Byte)
  BY <1>1, PiecesTyped
<1>6. NormalPiece(a, n + 1) = IF c = CR THEN <<LF>> ELSE IF c = LF /\ n # 0 /\ b[n] = CR THEN <<>> ELSE <<c>>
  <2>1. (n + 1) - 1 = n /\ (n + 1 > 1 <=> n # 0) /\ (n # 0 => a[n] = b[n])
    BY <1>1
  <2> QED
    BY <1>1, <2>1 DEF NormalPiece
<1>7. DOMAIN g = 1..(n + 1) /\ g = [k \in 1..(n + 1) |-> g[k]]
  OBVIOUS
<1> HIDE DEF f, g, n
<1>8. FlattenSeq(g) = FlattenSeq(f) \o g[n + 1] /\ FlattenSeq(f) \in Seq(Byte)
  BY <1>1, <1>3, <1>4, <1>5, <1>7, FlattenOneMore
<1> QED
  BY <1>2, <1>5, <1>6, <1>8 DEF n, a

\* The data of one more byte.
LEMMA DataAppend ==
    ASSUME NEW b \in Seq(Byte), NEW c \in Byte
    PROVE  /\ Data(b) \in Seq(Byte)
           /\ Data(Append(b, c)) =
                Data(b) \o (IF c \in LineBreaks THEN <<>>
                            ELSE IF DataAt(b) # {} /\ Len(b) \notin DataAt(b) THEN <<LF, c>> ELSE <<c>>)
           /\ DataAt(Append(b, c)) = DataAt(b) \cup (IF c \in LineBreaks THEN {} ELSE {Len(b) + 1})
           /\ DataAt(b) \subseteq 1..Len(b)
<1> DEFINE a == Append(b, c)
           n == Len(b)
           f == [k \in 1..n |-> DataPiece(b, k)]
           g == [k \in 1..(n + 1) |-> DataPiece(a, k)]
<1>1. /\ n \in Nat /\ DOMAIN b = 1..n /\ \A k \in 1..n : b[k] \in Byte
      /\ a \in Seq(Byte) /\ Len(a) = n + 1 /\ DOMAIN a = 1..(n + 1)
      /\ \A k \in 1..n : a[k] = b[k]
      /\ a[n + 1] = c
  BY OneByteMore
<1>2. Data(b) = FlattenSeq(f) /\ Data(a) = FlattenSeq(g)
  <2>1. Data(b) = FlattenSeq([k \in DOMAIN b |-> DataPiece(b, k)])
    BY DEF Data, DataPiece, DataAt
  <2>2. Data(a) = FlattenSeq([k \in DOMAIN a |-> DataPiece(a, k)])
    BY DEF Data, DataPiece, DataAt
  <2> QED
    BY ONLY <1>1, <2>1, <2>2
<1> HIDE DEF a
<1>0. DataAt(a) = DataAt(b) \cup (IF c \in LineBreaks THEN {} ELSE {n + 1}) /\ DataAt(b) \subseteq 1..n
  BY <1>1 DEF DataAt
<1>3. f \in [1..n -> Seq(Byte)]
  BY PiecesTyped
<1>4. \A k \in 1..n : g[k] = f[k]
  <2> SUFFICES ASSUME NEW k \in 1..n PROVE DataPiece(a, k) = DataPiece(b, k)
    BY <1>1
  <2>1. a[k] = b[k] /\ (k \in DataAt(a) <=> k \in DataAt(b)) /\ (k - 1 \in DataAt(a) <=> k - 1 \in DataAt(b))
    BY <1>0, <1>1
  <2>2. (\E j \in DataAt(a) : j < k) <=> (\E j \in DataAt(b) : j < k)
    BY <1>0, <1>1
  <2> QED
    BY <2>1, <2>2 DEF DataPiece
<1>5. g[n + 1] = DataPiece(a, n + 1) /\ g[n + 1] \in Seq(Byte)
  BY <1>1, PiecesTyped
<1>6. DataPiece(a, n + 1) = IF c \in LineBreaks THEN <<>>
                            ELSE IF DataAt(b) # {} /\ n \notin DataAt(b) THEN <<LF, c>> ELSE <<c>>
  <2>1. (n + 1) - 1 = n /\ (n \in DataAt(a) <=> n \in DataAt(b)) /\ (n + 1 \in DataAt(a) <=> c \notin LineBreaks)
    <3>0. n \in Nat
      BY <1>1
    <3>1. n \in Nat /\ n # n + 1 /\ (n + 1) - 1 = n /\ n + 1 \notin 1..n
      BY ONLY <3>0
    <3>2. CASE c \in LineBreaks
      BY <1>0, <3>1, <3>2
    <3>3. CASE c \notin LineBreaks
      BY <1>0, <3>1, <3>3
    <3> QED
      BY <3>2, <3>3
  <2>2. (\E j \in DataAt(a) : j < n + 1) <=> DataAt(b) # {}
    BY <1>0, <1>1
  <2> QED
    BY <1>1, <2>1, <2>2 DEF DataPiece
<1>7. DOMAIN g = 1..(n + 1) /\ g = [k \in 1..(n + 1) |-> g[k]]
  OBVIOUS
<1> HIDE DEF f, g, n
<1>8. FlattenSeq(g) = FlattenSeq(f) \o g[n + 1] /\ FlattenSeq(f) \in Seq(Byte)
  BY <1>1, <1>3, <1>4, <1>5, <1>7, FlattenOneMore
<1> QED
  BY <1>0, <1>2, <1>5, <1>6, <1>8 DEF n, a

\* One more byte leaves the text unfinished or good exactly when it goes on with the last character.
LEMMA Utf8Append ==
    ASSUME NEW b \in Seq(Byte), NEW c \in Byte
    PROVE  UnfinishedUtf8(Append(b, c)) <=>
             /\ UnfinishedUtf8(b)
             /\ c = Trail <=> Len(b) # 0 /\ b[Len(b)] = Lead
<1> DEFINE a == Append(b, c)
           n == Len(b)
<1>1. /\ n \in Nat /\ DOMAIN b = 1..n
      /\ Len(a) = n + 1 /\ DOMAIN a = 1..(n + 1)
      /\ \A k \in 1..n : a[k] = b[k]
      /\ a[n + 1] = c
  BY OneByteMore
<1> HIDE DEF a, n
<1>2. UnfinishedUtf8(a) => UnfinishedUtf8(b) /\ (c = Trail <=> n # 0 /\ b[n] = Lead)
  <2> SUFFICES ASSUME UnfinishedUtf8(a) PROVE UnfinishedUtf8(b) /\ (c = Trail <=> n # 0 /\ b[n] = Lead)
    OBVIOUS
  <2>0. \A k \in 1..(n + 1) : /\ a[k] = Trail => k > 1 /\ a[k - 1] = Lead
                              /\ a[k] = Lead /\ k < n + 1 => a[k + 1] = Trail
    BY <1>1 DEF UnfinishedUtf8
  <2>1. ASSUME NEW k \in 1..n PROVE /\ b[k] = Trail => k > 1 /\ b[k - 1] = Lead
                                    /\ b[k] = Lead /\ k < n => b[k + 1] = Trail
    <3>1. k \in 1..(n + 1) /\ a[k] = b[k] /\ (k > 1 => a[k - 1] = b[k - 1]) /\ (k < n => a[k + 1] = b[k + 1])
      BY <1>1
    <3> QED
      BY <1>1, <2>0, <3>1
  <2>2. c = Trail => n # 0 /\ b[n] = Lead
    <3>1. n + 1 \in 1..(n + 1) /\ (n + 1) - 1 = n /\ (n + 1 > 1 => n # 0 /\ a[n] = b[n])
      BY <1>1
    <3> QED
      BY <1>1, <2>0, <3>1
  <2>3. n # 0 /\ b[n] = Lead => c = Trail
    <3>1. n # 0 => n \in 1..(n + 1) /\ n < n + 1 /\ a[n] = b[n]
      BY <1>1
    <3> QED
      BY <1>1, <2>0, <3>1
  <2> QED
    BY <1>1, <2>1, <2>2, <2>3 DEF UnfinishedUtf8, n
<1>3. UnfinishedUtf8(b) /\ (c = Trail <=> n # 0 /\ b[n] = Lead) => UnfinishedUtf8(a)
  <2> SUFFICES ASSUME UnfinishedUtf8(b), c = Trail <=> n # 0 /\ b[n] = Lead, NEW k \in 1..(n + 1)
               PROVE  /\ a[k] = Trail => k > 1 /\ a[k - 1] = Lead
                      /\ a[k] = Lead /\ k < n + 1 => a[k + 1] = Trail
    BY <1>1 DEF UnfinishedUtf8
  <2>0. \A m \in 1..n : /\ b[m] = Trail => m > 1 /\ b[m - 1] = Lead
                        /\ b[m] = Lead /\ m < n => b[m + 1] = Trail
    BY <1>1 DEF UnfinishedUtf8, n
  <2>1. CASE k = n + 1
    <3>1. k > 1 <=> n # 0
      BY <1>1, <2>1
    <3>2. k - 1 = n /\ (n # 0 => a[n] = b[n])
      BY <1>1, <2>1
    <3> QED
      BY <1>1, <2>1, <3>1, <3>2
  <2>2. CASE k # n + 1
    <3>1. k \in 1..n /\ a[k] = b[k] /\ (k > 1 => a[k - 1] = b[k - 1]) /\ (k < n => a[k + 1] = b[k + 1])
      BY <1>1, <2>2
    <3>2. k = n => a[k + 1] = c /\ n # 0
      <4>1. a[n + 1] = c
        BY <1>1
      <4>2. k = n => n # 0
        BY <3>1
      <4> QED
        BY <4>1, <4>2
    <3>3. k < n \/ k = n
      <4>1. n \in Nat /\ k \in 1..n
        BY <1>1, <3>1
      <4> QED
        BY ONLY <4>1
    <3>4. a[k] = Trail => k > 1 /\ a[k - 1] = Lead
      BY <2>0, <3>1
    <3>5. CASE k < n
      BY <2>0, <3>1, <3>4, <3>5
    <3>6. CASE k = n
      <4>1. a[k] = Lead => a[k + 1] = Trail
        <5>1. a[k] = Lead => n # 0 /\ b[n] = Lead
          BY <3>1, <3>2, <3>6
        <5> QED
          BY <3>2, <3>6, <5>1
      <4> QED
        BY <3>4, <4>1
    <3> QED
      BY <3>3, <3>5, <3>6
  <2> QED
    BY <2>1, <2>2
<1> QED
  BY <1>2, <1>3 DEF a, n
-----------------------------------------------------------------------------
\* Normalised, a body says the same.
Alike(m, b) ==
    /\ m \in Seq(Byte) /\ (Len(m) = 0 <=> Len(b) = 0)
    /\ Len(b) # 0 => /\ b[Len(b)] \in LineBreaks => m[Len(m)] = LF
                     /\ b[Len(b)] \notin LineBreaks => m[Len(m)] = b[Len(b)]
    /\ Data(m) = Data(b) /\ (DataAt(m) = {} <=> DataAt(b) = {})
    /\ UnfinishedUtf8(m) <=> UnfinishedUtf8(b)

\* A body that is not empty has a last byte.
LEMMA LastByte ==
    ASSUME NEW b \in Seq(Byte), Len(b) # 0
    PROVE  \E a \in Seq(Byte), c \in Byte : b = Append(a, c) /\ Len(a) = Len(b) - 1
<1> DEFINE n == Len(b)
           a == [k \in 1..(n - 1) |-> b[k]]
           c == b[n]
           p == Append(a, c)
<1>1. n \in Nat /\ n - 1 \in Nat /\ \A k \in 1..n : b[k] \in Byte
  OBVIOUS
<1>2. c \in Byte /\ a \in Seq(Byte) /\ Len(a) = n - 1 /\ \A k \in 1..(n - 1) : a[k] = b[k]
  BY <1>1
<1> HIDE DEF a
<1>3. p \in Seq(Byte) /\ Len(p) = (n - 1) + 1 /\ p[(n - 1) + 1] = c /\ \A k \in 1..(n - 1) : p[k] = a[k]
  BY <1>2, OneByteMore
<1>4. Len(p) = n /\ \A k \in 1..n : p[k] = b[k]
  BY <1>1, <1>2, <1>3
<1>5. p = b
  BY <1>3, <1>4, SeqEqual
<1> QED
  BY <1>2, <1>5

\* One more byte and its normal form are as alike.
LEMMA AlikeStep ==
    ASSUME NEW a \in Seq(Byte), NEW c \in Byte, Alike(Normalised(a), a)
    PROVE  Alike(Normalised(Append(a, c)), Append(a, c))
<1> DEFINE m == Normalised(a)
           b == Append(a, c)
           n == Len(a)
<1>0. /\ m \in Seq(Byte) /\ (Len(m) = 0 <=> n = 0) /\ n \in Nat /\ Len(m) \in Nat
      /\ n # 0 => /\ a[n] \in LineBreaks => m[Len(m)] = LF
                  /\ a[n] \notin LineBreaks => m[Len(m)] = a[n]
      /\ Data(m) = Data(a) /\ (DataAt(m) = {} <=> DataAt(a) = {})
      /\ UnfinishedUtf8(m) <=> UnfinishedUtf8(a)
  BY DEF Alike
<1>1. Normalised(b) = m \o (IF c = CR THEN <<LF>> ELSE IF c = LF /\ n # 0 /\ a[n] = CR THEN <<>> ELSE <<c>>)
  BY NormalisedAppend
<1>2. /\ Len(b) = n + 1 /\ b[n + 1] = c /\ b \in Seq(Byte)
      /\ \A k \in 1..n : b[k] = a[k]
  BY OneByteMore
<1>3. Data(b) = Data(a) \o (IF c \in LineBreaks THEN <<>>
                            ELSE IF DataAt(a) # {} /\ n \notin DataAt(a) THEN <<LF, c>> ELSE <<c>>)
      /\ DataAt(b) = DataAt(a) \cup (IF c \in LineBreaks THEN {} ELSE {n + 1})
      /\ Data(a) \in Seq(Byte)
  BY DataAppend
<1>4. UnfinishedUtf8(b) <=> UnfinishedUtf8(a) /\ (c = Trail <=> n # 0 /\ a[n] = Lead)
  BY Utf8Append
<1>5. n \in DataAt(a) <=> n # 0 /\ a[n] \notin LineBreaks
  BY <1>0, OneByteMore DEF DataAt
<1>6. Len(m) \in DataAt(m) <=> Len(m) # 0 /\ m[Len(m)] \notin LineBreaks
  BY <1>0, OneByteMore DEF DataAt
<1> HIDE DEF m, b, n
<1>7. CASE c = LF /\ n # 0 /\ a[n] = CR
  <2>1. c # CR /\ c \in LineBreaks /\ c # Trail /\ a[n] # Lead
    BY <1>7, BytesTyped
  <2>2. Normalised(b) = m \o <<>> /\ m \o <<>> = m
    <3>1. Normalised(b) = m \o <<>>
      BY <1>1, <1>7, <2>1
    <3>2. m \o <<>> = m
      BY <1>0, ConcatEmptySeq
    <3> QED
      BY <3>1, <3>2
  <2>3. Data(b) = Data(a) /\ DataAt(b) = DataAt(a)
    <3>1. Data(b) = Data(a) \o <<>>
      BY <1>3, <2>1
    <3>2. Data(a) \o <<>> = Data(a)
      BY <1>3, ConcatEmptySeq
    <3>3. DataAt(b) = DataAt(a)
      BY <1>3, <2>1
    <3> QED
      BY <3>1, <3>2, <3>3
  <2>4. m[Len(m)] = LF
    BY <1>0, <1>7, BytesTyped
  <2>5. UnfinishedUtf8(b) <=> UnfinishedUtf8(a)
    BY <1>4, <1>7, <2>1
  <2>6. Len(b) # 0 /\ Len(m) # 0 /\ b[Len(b)] \in LineBreaks
    BY <1>0, <1>2, <1>7, <2>1
  <2>7. Alike(m, b)
    BY <1>0, <2>3, <2>4, <2>5, <2>6 DEF Alike
  <2>8. Normalised(b) = m
    BY <2>2
  <2> QED
    BY <2>7, <2>8 DEF b
<1>8. CASE ~(c = LF /\ n # 0 /\ a[n] = CR)
  <2> DEFINE d == IF c = CR THEN LF ELSE c
             q == Append(m, d)
  <2>1. d \in Byte /\ (d \in LineBreaks <=> c \in LineBreaks) /\ (d = Trail <=> c = Trail)
        /\ (c \in LineBreaks => d = LF) /\ (c \notin LineBreaks => d = c)
    BY BytesTyped
  <2>2. Normalised(b) = m \o <<d>>
    BY <1>1, <1>8
  <2> HIDE DEF d
  <2>3. m \o <<d>> = q
    BY <1>0, <2>1, AppendIsConcat
  <2>4. /\ Len(q) = Len(m) + 1 /\ q[Len(m) + 1] = d /\ q \in Seq(Byte)
    BY <1>0, <2>1, OneByteMore
  <2>5. Data(q) = Data(m) \o (IF d \in LineBreaks THEN <<>>
                              ELSE IF DataAt(m) # {} /\ Len(m) \notin DataAt(m) THEN <<LF, d>> ELSE <<d>>)
        /\ DataAt(q) = DataAt(m) \cup (IF d \in LineBreaks THEN {} ELSE {Len(m) + 1})
    BY <1>0, <2>1, DataAppend
  <2>6. UnfinishedUtf8(q) <=> UnfinishedUtf8(m) /\ (d = Trail <=> Len(m) # 0 /\ m[Len(m)] = Lead)
    BY <1>0, <2>1, Utf8Append
  <2> HIDE DEF q
  <2>7. Len(m) \in DataAt(m) <=> n \in DataAt(a)
    BY <1>0, <1>5, <1>6, BytesTyped
  <2>8. Data(q) = Data(b)
    <3>1. CASE c \in LineBreaks
      <4>1. Data(q) = Data(m) \o <<>>
        BY <2>1, <2>5, <3>1
      <4>2. Data(b) = Data(a) \o <<>>
        BY <1>3, <3>1
      <4> QED
        BY ONLY <4>1, <4>2, <1>0
    <3>2. CASE c \notin LineBreaks /\ DataAt(a) # {} /\ n \notin DataAt(a)
      <4>1. Data(q) = Data(m) \o <<LF, d>>
        BY <1>0, <2>1, <2>5, <2>7, <3>2
      <4>2. Data(b) = Data(a) \o <<LF, c>>
        BY <1>3, <3>2
      <4>3. d = c
        BY <2>1, <3>2
      <4> QED
        BY ONLY <4>1, <4>2, <4>3, <1>0
    <3>3. CASE c \notin LineBreaks /\ ~(DataAt(a) # {} /\ n \notin DataAt(a))
      <4>1. Data(q) = Data(m) \o <<d>>
        BY <1>0, <2>1, <2>5, <2>7, <3>3
      <4>2. Data(b) = Data(a) \o <<c>>
        BY <1>3, <3>3
      <4>3. d = c
        BY <2>1, <3>3
      <4> QED
        BY ONLY <4>1, <4>2, <4>3, <1>0
    <3> QED
      BY <3>1, <3>2, <3>3
  <2>9. DataAt(q) = {} <=> DataAt(b) = {}
    BY <1>0, <1>3, <2>1, <2>5
  <2>10. Len(m) # 0 /\ m[Len(m)] = Lead <=> n # 0 /\ a[n] = Lead
    BY <1>0, BytesTyped
  <2>11. UnfinishedUtf8(q) <=> UnfinishedUtf8(b)
    BY <1>0, <1>4, <2>1, <2>6, <2>10
  <2>12. Len(q) # 0 /\ Len(b) # 0 /\ q[Len(q)] = d /\ b[Len(b)] = c
    BY <1>0, <1>2, <2>4
  <2>13. Alike(q, b)
    BY <2>1, <2>4, <2>8, <2>9, <2>11, <2>12 DEF Alike
  <2>14. Normalised(b) = q
    BY ONLY <2>2, <2>3
  <2> QED
    BY <2>13, <2>14 DEF b
<1> QED
  BY <1>7, <1>8

\* The normal form of a body is like it, by induction on its length.
LEMMA NormalisedAlike == ASSUME NEW b \in Seq(Byte) PROVE Alike(Normalised(b), b)
<1> DEFINE Bad == {n \in Nat : \E a \in Seq(Byte) : Len(a) = n /\ ~Alike(Normalised(a), a)}
<1>1. SUFFICES ASSUME Bad # {} PROVE FALSE
  <2>1. Len(b) \in Nat
    BY OneByteMore, BytesTyped
  <2> QED
    BY <2>1
<1>2. Bad \in SUBSET Nat
  OBVIOUS
<1>3. PICK n \in Bad : \A j \in Bad : n <= j
  BY ONLY <1>1, <1>2, LeastNumber
<1>4. PICK a \in Seq(Byte) : Len(a) = n /\ ~Alike(Normalised(a), a)
  OBVIOUS
<1>5. CASE n = 0
  <2>1. a = <<>>
    BY <1>4, <1>5
  <2>2. Alike(<<>>, <<>>)
    BY NoBytes DEF Alike
  <2> QED
    BY <1>4, <2>1, <2>2, NoBytes
<1>6. CASE n # 0
  <2>1. PICK p \in Seq(Byte), c \in Byte : a = Append(p, c) /\ Len(p) = Len(a) - 1
    BY <1>4, <1>6, LastByte
  <2>2. Len(p) \in Nat /\ ~(n <= Len(p))
    BY <1>3, <1>4, <1>6, <2>1
  <2>3. Len(p) \notin Bad
    BY <1>3, <2>2
  <2>4. Alike(Normalised(p), p)
    BY <2>2, <2>3
  <2> QED
    BY <1>4, <2>1, <2>4, AlikeStep
<1> QED
  BY <1>5, <1>6

\* So an event is taken for the same as its normalised bytes are.
LEMMA EventAlike ==
    ASSUME NEW b \in Seq(Byte), NEW p
    PROVE  SseEvent(p, Normalised(b)) = SseEvent(p, b)
<1> DEFINE m == Normalised(b)
<1>1. Alike(m, b)
  BY NormalisedAlike
<1>2. m \in Seq(Byte) /\ Len(m) \in Nat /\ Len(b) \in Nat
  BY <1>1 DEF Alike
<1>3. Data(m) = Data(b)
  BY <1>1 DEF Alike
<1>4. Utf8(m) <=> Utf8(b)
  <2>1. m # <<>> <=> Len(m) # 0
    BY <1>2
  <2>2. b # <<>> <=> Len(b) # 0
    OBVIOUS
  <2>3. Len(b) # 0 => (m[Len(m)] = Lead <=> b[Len(b)] = Lead)
    BY <1>1, BytesTyped DEF Alike
  <2> QED
    BY <1>1, <2>1, <2>2, <2>3 DEF Alike, Utf8, Last
<1> QED
  BY <1>3, <1>4 DEF SseEvent

\* ... and a line break behind the last line says nothing.
LEMMA BlankLine ==
    ASSUME NEW b \in Seq(Byte), NEW c \in LineBreaks, Len(b) # 0 => b[Len(b)] \in LineBreaks, NEW p
    PROVE  SseEvent(p, Append(b, c)) = SseEvent(p, b)
<1> DEFINE a == Append(b, c)
<1>0. c \in Byte /\ c # Lead /\ c # Trail /\ (Len(b) # 0 => b[Len(b)] # Lead)
  BY BytesTyped
<1>1. Data(a) = Data(b)
  <2>1. Data(a) = Data(b) \o <<>> /\ Data(b) \in Seq(Byte)
    BY <1>0, DataAppend
  <2> QED
    BY <2>1, ConcatEmptySeq
<1>2. UnfinishedUtf8(a) <=> UnfinishedUtf8(b)
  BY <1>0, Utf8Append
<1>3. a # <<>> /\ Last(a) = c
  <2>1. a # <<>> /\ Len(a) = Len(b) + 1 /\ a[Len(b) + 1] = c
    BY <1>0, OneByteMore
  <2> HIDE DEF a
  <2> QED
    BY <2>1 DEF Last
<1>4. b # <<>> => Last(b) # Lead
  BY <1>0 DEF Last
<1>5. Utf8(a) <=> Utf8(b)
  BY <1>0, <1>2, <1>3, <1>4 DEF Utf8
<1> HIDE DEF a
<1>6. SseEvent(p, a) = SseEvent(p, b)
  BY <1>1, <1>5 DEF SseEvent
<1> QED
  BY <1>6 DEF a

\* What an event comes to.
LEMMA EventIs ==
    ASSUME NEW b \in Seq(Byte), NEW p \in Seq(Byte)
    PROVE  /\ SseEvent(p, b).result \in {"none", "delta", "final", "error"}
           /\ SseEvent(p, b) = [result |-> SseEvent(p, b).result, partial |-> SseEvent(p, b).partial]
           /\ SseEvent(p, b).result = SseEvent(<<>>, b).result
           /\ SseEvent(p, b).partial \in Seq(Byte)
           /\ SseEvent(p, b).result = "final" => SseEvent(p, b) = SseEvent(<<>>, b)
           /\ SseEvent(p, b).result # "final" => SseEvent(p, b).partial = p \o SseEvent(<<>>, b).partial
           /\ SseEvent(p, b).result = "error" => SseEvent(p, b).partial = p
           /\ ~UnfinishedUtf8(b) => SseEvent(p, b).result = "error"
<1> DEFINE bad == ~Utf8(b) \/ \E k \in DOMAIN Data(b) : Data(b)[k] = Fault
           says == \E k \in DOMAIN Data(b) : Data(b)[k] = Done
<1>0. Data(b) \in Seq(Byte)
  BY BytesTyped, DataAppend
<1>e. p \o <<>> = p /\ <<>> \o <<>> = <<>> /\ <<>> \o Data(b) = Data(b)
  BY <1>0, ConcatEmptySeq
<1>1. CASE bad
  <2>1. \A t : SseEvent(t, b) = [result |-> "error", partial |-> t]
    BY <1>1 DEF SseEvent
  <2> HIDE DEF bad, says
  <2> QED
    BY <1>e, <2>1
<1>2. CASE ~bad /\ Data(b) = <<>>
  <2>1. \A t : SseEvent(t, b) = [result |-> "none", partial |-> t]
    BY <1>2 DEF SseEvent
  <2>2. UnfinishedUtf8(b)
    BY <1>2 DEF Utf8
  <2> HIDE DEF bad, says
  <2> QED
    BY <1>e, <2>1, <2>2
<1>3. CASE ~bad /\ Data(b) # <<>> /\ says
  <2>1. \A t : SseEvent(t, b) = [result |-> "final", partial |-> Data(b)]
    BY <1>3 DEF SseEvent
  <2>2. UnfinishedUtf8(b)
    BY <1>3 DEF Utf8
  <2> HIDE DEF bad, says
  <2> QED
    BY <1>0, <2>1, <2>2
<1>4. CASE ~bad /\ Data(b) # <<>> /\ ~says
  <2>1. \A t : SseEvent(t, b) = [result |-> "delta", partial |-> t \o Data(b)]
    BY <1>4 DEF SseEvent
  <2>2. UnfinishedUtf8(b)
    BY <1>4 DEF Utf8
  <2> DEFINE d == Data(b)
             u == p \o d
  <2>3. u \in Seq(Byte)
    BY <1>0, ConcatProperties
  <2>4. SseEvent(<<>>, b) = [result |-> "delta", partial |-> <<>> \o d]
    BY <2>1
  <2>5. <<>> \o d = d
    BY <1>e
  <2>6. SseEvent(p, b) = [result |-> "delta", partial |-> u]
    BY <2>1
  <2>7. SseEvent(<<>>, b) = [result |-> "delta", partial |-> d]
    BY ONLY <2>4, <2>5
  <2>8. SseEvent(<<>>, b).partial = d /\ SseEvent(<<>>, b).result = "delta"
    BY ONLY <2>7
  <2>9. p \o SseEvent(<<>>, b).partial = u
    BY <2>8
  <2> HIDE DEF bad, says, d, u
  <2> QED
    BY <2>2, <2>3, <2>6, <2>8, <2>9
<1> QED
  BY <1>1, <1>2, <1>3, <1>4
-----------------------------------------------------------------------------
\* The ends of the events of a text.
\* A part of two sequences that agree there.
LEMMA SamePart ==
    ASSUME NEW S, NEW a \in Seq(S), NEW b \in Seq(S), NEW m \in Nat, NEW n \in Nat, m >= 1,
           n <= Len(a), n <= Len(b), \A k \in m..n : a[k] = b[k]
    PROVE  SubSeq(a, m, n) = SubSeq(b, m, n) /\ SubSeq(a, m, n) \in Seq(S)
<1>1. \A k \in m..n : a[k] \in S /\ b[k] \in S
  OBVIOUS
<1>2. /\ SubSeq(a, m, n) \in Seq(S)
      /\ Len(SubSeq(a, m, n)) = IF m <= n THEN n - m + 1 ELSE 0
      /\ \A i \in 1..n - m + 1 : SubSeq(a, m, n)[i] = a[m + i - 1]
  BY <1>1, SubSeqProperties
<1>3. /\ SubSeq(b, m, n) \in Seq(S)
      /\ Len(SubSeq(b, m, n)) = IF m <= n THEN n - m + 1 ELSE 0
      /\ \A i \in 1..n - m + 1 : SubSeq(b, m, n)[i] = b[m + i - 1]
  BY <1>1, SubSeqProperties
<1> DEFINE p == SubSeq(a, m, n)
           q == SubSeq(b, m, n)
<1> HIDE DEF p, q
<1>4. Len(p) = Len(q) /\ p \in Seq(S) /\ q \in Seq(S)
  BY <1>2, <1>3 DEF p, q
<1>5. \A i \in 1..Len(p) : p[i] = q[i]
  <2> SUFFICES ASSUME NEW i \in 1..Len(p) PROVE p[i] = q[i]
    OBVIOUS
  <2>1. Len(p) = IF m <= n THEN n - m + 1 ELSE 0
    BY <1>2 DEF p
  <2>2. i \in 1..n - m + 1 /\ m + i - 1 \in m..n
    BY <2>1
  <2>3. p[i] = a[m + i - 1] /\ q[i] = b[m + i - 1]
    BY <1>2, <1>3, <2>2 DEF p, q
  <2> QED
    BY <2>2, <2>3
<1> QED
  BY <1>4, <1>5, SeqEqual DEF p, q

\* The positions where events end.
LEMMA EndsIs ==
    ASSUME NEW t \in Seq(Byte)
    PROVE  /\ Len(t) \in Nat
           /\ EventEnds(t) \subseteq 1..(Len(t) + 1) /\ Len(t) + 1 \in EventEnds(t)
           /\ \A k \in 1..Len(t) : k \in EventEnds(t) <=> t[k] = LF /\ (k = 1 \/ t[k - 1] = LF)
BY DEF EventEnds

\* The end of the event before a position.
LEMMA BeforeIs ==
    ASSUME NEW t \in Seq(Byte), NEW k \in Nat
    PROVE  /\ Before(t, k) = 0 \/ (Before(t, k) \in EventEnds(t) /\ Before(t, k) < k)
           /\ Before(t, k) \in 0..(Len(t) + 1)
           /\ \A e \in EventEnds(t) : e < k => e <= Before(t, k)
<1> DEFINE T == {0} \cup {e \in EventEnds(t) : e < k}
           n == Len(t) + 1
<1>1. T \in SUBSET (0..n) /\ T # {} /\ n \in Nat
  BY EndsIs
<1>2. Before(t, k) = Max(T)
  BY DEF Before
<1> HIDE DEF n
<1>3. Max(T) \in T /\ \A e \in T : e <= Max(T)
  BY <1>1, HighestOf
<1> QED
  BY <1>1, <1>2, <1>3 DEF n

\* It is the last one before a position when all are before it.
LEMMA BeforeBehind ==
    ASSUME NEW t \in Seq(Byte), NEW k \in Nat, NEW f \in Nat, f = 0 \/ f \in EventEnds(t), f < k \/ f = 0,
           \A e \in EventEnds(t) : e < k => e <= f
    PROVE  Before(t, k) = f
<1>1. EventEnds(t) \subseteq Nat
  BY EndsIs
<1> DEFINE g == Before(t, k)
<1>2. /\ g = 0 \/ (g \in EventEnds(t) /\ g < k)
      /\ g \in 0..(Len(t) + 1)
      /\ \A e \in EventEnds(t) : e < k => e <= g
  BY BeforeIs
<1>3. g \in Nat /\ f \in Nat /\ Len(t) \in Nat
  BY <1>2, EndsIs
<1> HIDE DEF g
<1>4. g <= f
  <2>1. g = 0 \/ g <= f
    BY <1>2
  <2> QED
    BY <1>3, <2>1
<1>5. f <= g
  <2>1. f = 0 \/ f <= g
    BY <1>2
  <2> QED
    BY <1>3, <2>1
<1> QED
  BY <1>3, <1>4, <1>5 DEF g

\* Events and what they say are made of bytes.
LEMMA EventTyped ==
    ASSUME NEW t \in Seq(Byte), NEW k \in 1..(Len(t) + 1)
    PROVE  /\ SubSeq(t, 1 + Before(t, k), k - 1) \in Seq(Byte)
           /\ EventAt(t, k).partial \in Seq(Byte) /\ DeltaAt(t, k) \in Seq(Byte)
           /\ EventAt(t, k) = [result |-> EventAt(t, k).result, partial |-> EventAt(t, k).partial]
<1>1. Len(t) \in Nat /\ k \in Nat /\ Before(t, k) \in Nat
  BY EndsIs, BeforeIs
<1>2. 1 + Before(t, k) \in Nat /\ k - 1 \in Nat /\ 1 + Before(t, k) >= 1 /\ k - 1 <= Len(t)
  BY <1>1
<1>3. SubSeq(t, 1 + Before(t, k), k - 1) \in Seq(Byte)
  BY <1>2, SamePart
<1>4. <<>> \in Seq(Byte)
  OBVIOUS
<1> DEFINE b == SubSeq(t, 1 + Before(t, k), k - 1)
<1>5. SseEvent(<<>>, b).partial \in Seq(Byte)
      /\ SseEvent(<<>>, b) = [result |-> SseEvent(<<>>, b).result, partial |-> SseEvent(<<>>, b).partial]
  BY <1>3, <1>4, EventIs
<1> QED
  BY <1>3, <1>4, <1>5 DEF EventAt, DeltaAt

\* What a text says does not depend on what follows it.
LEMMA SameEvents ==
    ASSUME NEW a \in Seq(Byte), NEW t \in Seq(Byte), StartsText(a, t)
    PROVE  /\ \A k \in 1..Len(a) : k \in EventEnds(t) <=> k \in EventEnds(a)
           /\ \A k \in 1..(Len(a) + 1) : EventAt(t, k) = EventAt(a, k)
           /\ \A k \in 1..Len(a) : DeltaAt(t, k) = DeltaAt(a, k)
           /\ \A k \in 1..(Len(a) + 1) : DeltasTo(t, k) = DeltasTo(a, k)
<1>0. Len(a) \in Nat /\ Len(t) \in Nat /\ Len(a) <= Len(t) /\ \A k \in 1..Len(a) : t[k] = a[k]
  BY EndsIs DEF StartsText
<1>1. \A k \in 1..Len(a) : k \in EventEnds(t) <=> k \in EventEnds(a)
  <2> SUFFICES ASSUME NEW k \in 1..Len(a) PROVE k \in EventEnds(t) <=> k \in EventEnds(a)
    OBVIOUS
  <2>1. k \in 1..Len(t) /\ t[k] = a[k] /\ (k # 1 => t[k - 1] = a[k - 1])
    BY <1>0
  <2>2. k \in EventEnds(t) <=> t[k] = LF /\ (k = 1 \/ t[k - 1] = LF)
    BY <2>1, EndsIs
  <2>3. k \in EventEnds(a) <=> a[k] = LF /\ (k = 1 \/ a[k - 1] = LF)
    BY EndsIs
  <2> QED
    BY <2>1, <2>2, <2>3
<1>2. ASSUME NEW k \in 1..(Len(a) + 1) PROVE EventAt(t, k) = EventAt(a, k)
  <2>1. {e \in EventEnds(t) : e < k} = {e \in EventEnds(a) : e < k}
    <3>1. EventEnds(t) \subseteq 1..(Len(t) + 1) /\ EventEnds(a) \subseteq 1..(Len(a) + 1)
      BY EndsIs
    <3>2. \A e \in 1..(Len(t) + 1) : e < k => e \in 1..Len(a)
      BY <1>0
    <3>3. \A e \in 1..(Len(a) + 1) : e < k => e \in 1..Len(a)
      BY <1>0
    <3> QED
      BY <1>1, <3>1, <3>2, <3>3
  <2>2. Before(t, k) = Before(a, k)
    BY <2>1 DEF Before
  <2>3. k \in Nat /\ Before(a, k) \in Nat
    BY <1>0, BeforeIs
  <2>4. SubSeq(t, 1 + Before(a, k), k - 1) = SubSeq(a, 1 + Before(a, k), k - 1)
    <3>1. 1 + Before(a, k) \in Nat /\ k - 1 \in Nat /\ 1 + Before(a, k) >= 1 /\ k - 1 <= Len(t) /\ k - 1 <= Len(a)
          /\ \A i \in (1 + Before(a, k))..(k - 1) : t[i] = a[i]
      BY <1>0, <2>3
    <3> QED
      BY <3>1, SamePart
  <2> QED
    BY <2>2, <2>4 DEF EventAt
<1>3. \A k \in 1..Len(a) : DeltaAt(t, k) = DeltaAt(a, k)
  BY <1>0, <1>1, <1>2 DEF DeltaAt
<1>4. ASSUME NEW k \in 1..(Len(a) + 1) PROVE DeltasTo(t, k) = DeltasTo(a, k)
  <2>1. \A j \in 1..k - 1 : DeltaAt(t, j) = DeltaAt(a, j)
    BY <1>0, <1>3
  <2>2. [j \in 1..k - 1 |-> DeltaAt(t, j)] = [j \in 1..k - 1 |-> DeltaAt(a, j)]
    BY <2>1
  <2> QED
    BY <2>2 DEF DeltasTo
<1> QED
  BY <1>1, <1>2, <1>3, <1>4

\* What a text says up to its k-th byte and what that byte ends.
LEMMA OneMoreDelta ==
    ASSUME NEW t \in Seq(Byte), NEW k \in 1..(Len(t) + 1)
    PROVE  DeltasTo(t, k + 1) = DeltasTo(t, k) \o DeltaAt(t, k) /\ DeltasTo(t, k) \in Seq(Byte)
<1> DEFINE n == k - 1
           f == [j \in 1..n |-> DeltaAt(t, j)]
           g == [j \in 1..(n + 1) |-> DeltaAt(t, j)]
<1>1. n \in Nat /\ n + 1 = k /\ (k + 1) - 1 = n + 1 /\ n <= Len(t) /\ Len(t) \in Nat
  BY EndsIs
<1>2. \A j \in 1..(n + 1) : DeltaAt(t, j) \in Seq(Byte)
  BY <1>1, EventTyped
<1>3. f \in [1..n -> Seq(Byte)] /\ DOMAIN g = 1..(n + 1) /\ g = [j \in 1..(n + 1) |-> g[j]]
      /\ (\A j \in 1..n : g[j] = f[j]) /\ g[n + 1] = DeltaAt(t, k) /\ g[n + 1] \in Seq(Byte)
  BY <1>1, <1>2
<1>4. DeltasTo(t, k) = FlattenSeq(f) /\ DeltasTo(t, k + 1) = FlattenSeq(g)
  BY <1>1 DEF DeltasTo
<1>6. n \in Nat
  BY <1>1
<1> HIDE DEF f, g, n
<1>5. FlattenSeq(g) = FlattenSeq(f) \o g[n + 1] /\ FlattenSeq(f) \in Seq(Byte)
  BY <1>3, <1>6, FlattenOneMore
<1> QED
  BY <1>3, <1>4, <1>5
-----------------------------------------------------------------------------
\* What a whole text says, in the terms of its events.
StopsAt(t) == {k \in EventEnds(t) : EventAt(t, k).result \in Stops}
\* What the whole text says, with the definitions above.
LEMMA WholeTextIs ==
    ASSUME NEW t
    PROVE  WholeText(t) =
             IF StopsAt(t) = {} THEN [result |-> "unfinished", partial |-> DeltasTo(t, Len(t) + 2)]
             ELSE IF EventAt(t, Min(StopsAt(t))).result = "final" THEN EventAt(t, Min(StopsAt(t)))
             ELSE [result |-> "error", partial |-> DeltasTo(t, Min(StopsAt(t)))]
BY DEF WholeText, StopsAt, EventAt, Before, DeltasTo, DeltaAt, Stops

\* The lowest of some numbers.
LEMMA LowestIs ==
    ASSUME NEW T \in SUBSET Nat, NEW k \in T, \A j \in T : k <= j
    PROVE  Min(T) = k
<1>1. \E x \in T : \A y \in T : x =< y
  OBVIOUS
<1> DEFINE m == Min(T)
<1>2. m \in T /\ \A y \in T : m =< y
  BY <1>1 DEF Min
<1> HIDE DEF m
<1>3. m \in Nat /\ k \in Nat /\ m <= k /\ k <= m
  BY <1>2
<1>4. m = k
  BY <1>3
<1> QED
  BY <1>4 DEF m

\* The event behind the last one.
LEMMA LastEvent ==
    ASSUME NEW t \in Seq(Byte), NEW f, NEW p, SaysSoFar(t, f, p)
    PROVE  EventAt(t, Len(t) + 1) = SseEvent(<<>>, SubSeq(t, f + 1, Len(t)))
<1>1. Len(t) \in Nat /\ f \in Nat /\ f <= Len(t) /\ (f = 0 \/ f \in EventEnds(t)) /\ EventEnds(t) \subseteq 1..(Len(t) + 1)
      /\ \A e \in EventEnds(t) : e <= Len(t) => e <= f
  BY EndsIs DEF SaysSoFar
<1>2. \A e \in EventEnds(t) : e < Len(t) + 1 => e <= f
  BY <1>1
<1>3. Len(t) + 1 \in Nat /\ (f < Len(t) + 1 \/ f = 0)
  BY <1>1
<1>4. Before(t, Len(t) + 1) = f
  BY <1>1, <1>2, <1>3, BeforeBehind
<1>5. 1 + f = f + 1 /\ (Len(t) + 1) - 1 = Len(t)
  BY <1>1
<1> QED
  BY <1>4, <1>5 DEF EventAt

\* An empty text says nothing.
LEMMA NothingSaid == SaysSoFar(<<>>, 0, <<>>)
<1>1. Len(<<>>) = 0 /\ 0 \in 0..0 /\ <<>> \in Seq(Byte)
  OBVIOUS
<1>2. EventEnds(<<>>) \subseteq 1..(0 + 1)
  <2>1. EventEnds(<<>>) \subseteq 1..(Len(<<>>) + 1)
    BY <1>1, EndsIs
  <2> QED
    BY <1>1, <2>1
<1>3. [j \in 1..(0 + 1) - 1 |-> DeltaAt(<<>>, j)] = <<>>
  OBVIOUS
<1>4. DeltasTo(<<>>, 0 + 1) = <<>>
  BY <1>3, NoBytes DEF DeltasTo, FlattenSeq
<1> QED
  BY <1>1, <1>2, <1>4 DEF SaysSoFar

\* One byte more on a text that goes on.
LEMMA TextBegins ==
    ASSUME NEW t \in Seq(Byte), NEW c \in Byte
    PROVE  StartsText(t, Append(t, c)) /\ StartsText(t, t)
BY OneByteMore DEF StartsText

\* A byte that ends no event leaves it at that.
LEMMA TextGrows ==
    ASSUME NEW t \in Seq(Byte), NEW f, NEW p, SaysSoFar(t, f, p), NEW c \in Byte,
           c = LF => Len(t) # 0 /\ t[Len(t)] # LF
    PROVE  SaysSoFar(Append(t, c), f, p)
<1> DEFINE u == Append(t, c)
           n == Len(t)
<1>0. n \in Nat /\ u \in Seq(Byte) /\ Len(u) = n + 1 /\ u[n + 1] = c /\ (\A k \in 1..n : u[k] = t[k])
      /\ StartsText(t, u)
  BY OneByteMore, TextBegins
<1> HIDE DEF u
<1>1. n + 1 \notin EventEnds(u)
  <2>1. n + 1 \in 1..Len(u) /\ (n + 1) - 1 = n /\ (n + 1 = 1 <=> n = 0) /\ (n # 0 => u[n] = t[n])
    BY <1>0
  <2> QED
    BY <1>0, <2>1, EndsIs
<1>2. /\ \A k \in 1..n : k \in EventEnds(u) <=> k \in EventEnds(t)
      /\ \A k \in 1..(n + 1) : EventAt(u, k) = EventAt(t, k)
      /\ \A k \in 1..(n + 1) : DeltasTo(u, k) = DeltasTo(t, k)
  BY <1>0, SameEvents
<1>3. f \in 0..n /\ (f # 0 => f \in EventEnds(t))
      /\ (\A e \in EventEnds(t) : e <= n => e <= f /\ EventAt(t, e).result \notin Stops)
      /\ p = DeltasTo(t, n + 1)
  BY DEF SaysSoFar
<1> HIDE DEF n
<1>4. f \in 0..Len(u) /\ (f # 0 => f \in EventEnds(u))
  BY <1>0, <1>2, <1>3
<1>5. ASSUME NEW e \in EventEnds(u), e <= Len(u) PROVE e <= f /\ EventAt(u, e).result \notin Stops
  <2>1. e \in 1..n
    BY <1>0, <1>1, <1>5, EndsIs
  <2>2. e \in EventEnds(t) /\ e <= n /\ EventAt(u, e) = EventAt(t, e)
    BY <1>0, <1>2, <2>1
  <2> QED
    BY <1>3, <2>2
<1>6. DeltasTo(u, Len(u) + 1) = p
  <2>1. n + 1 \in 1..(Len(u) + 1) /\ n + 1 \in 1..(n + 1)
    BY <1>0
  <2>2. DeltasTo(u, (n + 1) + 1) = DeltasTo(u, n + 1) \o DeltaAt(u, n + 1) /\ DeltasTo(u, n + 1) \in Seq(Byte)
    BY <1>0, <2>1, OneMoreDelta
  <2>3. DeltaAt(u, n + 1) = <<>> /\ DeltasTo(u, n + 1) = p
    BY <1>1, <1>2, <1>3, <2>1 DEF DeltaAt
  <2>4. p \o <<>> = p
    BY <2>2, <2>3, ConcatEmptySeq
  <2> QED
    BY <1>0, <2>2, <2>3, <2>4
<1> QED
  BY <1>4, <1>5, <1>6 DEF SaysSoFar, u

\* One byte more that ends an event.
LEMMA TextEnds ==
    ASSUME NEW t \in Seq(Byte), NEW f, NEW p, SaysSoFar(t, f, p), Len(t) # 0 => t[Len(t)] = LF,
           EventAt(t, Len(t) + 1).result \notin Stops
    PROVE  SaysSoFar(Append(t, LF), Len(t) + 1, p \o EventAt(t, Len(t) + 1).partial)
<1> DEFINE u == Append(t, LF)
           n == Len(t)
<1>0. n \in Nat /\ u \in Seq(Byte) /\ Len(u) = n + 1 /\ u[n + 1] = LF /\ (\A k \in 1..n : u[k] = t[k])
      /\ StartsText(t, u)
  BY BytesTyped, OneByteMore, TextBegins
<1> HIDE DEF u
<1>1. n + 1 \in EventEnds(u)
  <2>1. n + 1 \in 1..Len(u) /\ (n + 1) - 1 = n /\ (n + 1 = 1 <=> n = 0) /\ (n # 0 => u[n] = t[n])
    BY <1>0
  <2> QED
    BY <1>0, <2>1, EndsIs
<1>2. /\ \A k \in 1..n : k \in EventEnds(u) <=> k \in EventEnds(t)
      /\ \A k \in 1..(n + 1) : EventAt(u, k) = EventAt(t, k)
      /\ \A k \in 1..(n + 1) : DeltasTo(u, k) = DeltasTo(t, k)
  BY <1>0, SameEvents
<1>3. /\ \A e \in EventEnds(t) : e <= n => EventAt(t, e).result \notin Stops
      /\ p = DeltasTo(t, n + 1)
  BY DEF SaysSoFar
<1>7. EventAt(t, n + 1).result \notin Stops
  OBVIOUS
<1> HIDE DEF n
<1>5. ASSUME NEW e \in EventEnds(u), e <= Len(u) PROVE e <= n + 1 /\ EventAt(u, e).result \notin Stops
  <2>1. e \in 1..(n + 1) /\ EventAt(u, e) = EventAt(t, e)
    BY <1>0, <1>2, <1>5, EndsIs
  <2>2. e # n + 1 => e \in EventEnds(t) /\ e <= n
    BY <1>0, <1>2, <2>1
  <2> QED
    BY <1>0, <1>3, <1>7, <2>1, <2>2
<1>6. DeltasTo(u, Len(u) + 1) = p \o EventAt(t, n + 1).partial
  <2>1. n + 1 \in 1..(Len(u) + 1) /\ n + 1 \in 1..(n + 1)
    BY <1>0
  <2>2. DeltasTo(u, (n + 1) + 1) = DeltasTo(u, n + 1) \o DeltaAt(u, n + 1)
    BY <1>0, <2>1, OneMoreDelta
  <2>3. DeltaAt(u, n + 1) = EventAt(t, n + 1).partial /\ DeltasTo(u, n + 1) = p
    BY <1>1, <1>2, <1>3, <2>1 DEF DeltaAt
  <2> QED
    BY <1>0, <2>2, <2>3
<1>8. n + 1 \in 0..Len(u)
  BY <1>0
<1> QED
  BY <1>1, <1>5, <1>6, <1>8 DEF SaysSoFar, u, n

\* The event at hand is the final text or an error: nothing behind it counts.
LEMMA TextStops ==
    ASSUME NEW t \in Seq(Byte), NEW f, NEW p, SaysSoFar(t, f, p), NEW u \in Seq(Byte), StartsText(t, u),
           Len(t) + 1 \in EventEnds(u), EventAt(t, Len(t) + 1).result \in Stops
    PROVE  WholeText(u) = IF EventAt(t, Len(t) + 1).result = "final" THEN EventAt(t, Len(t) + 1)
                          ELSE [result |-> "error", partial |-> p]
<1> DEFINE e == Len(t) + 1
<1>0. Len(t) \in Nat /\ e \in Nat /\ e \in 1..(Len(t) + 1) /\ EventEnds(u) \subseteq 1..(Len(u) + 1) /\ Len(u) \in Nat
  BY EndsIs
<1>1. /\ \A k \in 1..Len(t) : k \in EventEnds(u) <=> k \in EventEnds(t)
      /\ \A k \in 1..(Len(t) + 1) : EventAt(u, k) = EventAt(t, k)
      /\ DeltasTo(u, e) = DeltasTo(t, e)
  BY <1>0, SameEvents
<1>2. e \in StopsAt(u)
  BY <1>0, <1>1 DEF StopsAt
<1>3. ASSUME NEW k \in StopsAt(u), k < e PROVE FALSE
  <2>1. k \in 1..Len(t) /\ k \in EventEnds(u) /\ EventAt(u, k).result \in Stops
    BY <1>0, <1>3 DEF StopsAt
  <2>2. k \in EventEnds(t) /\ k <= Len(t) /\ EventAt(t, k).result \in Stops
    BY <1>0, <1>1, <2>1
  <2> QED
    BY <2>2 DEF SaysSoFar
<1>4. StopsAt(u) \in SUBSET Nat
  BY <1>0 DEF StopsAt
<1>5. \A k \in StopsAt(u) : e <= k
  BY <1>0, <1>3, <1>4
<1>6. Min(StopsAt(u)) = e
  BY <1>2, <1>4, <1>5, LowestIs
<1>7. EventAt(u, e) = EventAt(t, e) /\ DeltasTo(u, e) = p
  BY <1>0, <1>1 DEF SaysSoFar
<1> HIDE DEF e
<1>8. WholeText(u) = IF EventAt(u, e).result = "final" THEN EventAt(u, e)
                     ELSE [result |-> "error", partial |-> DeltasTo(u, e)]
  BY <1>2, <1>6, WholeTextIs
<1> QED
  BY <1>7, <1>8 DEF e

\* The event at hand is the last one.
LEMMA TextIsOver ==
    ASSUME NEW t \in Seq(Byte), NEW f, NEW p, SaysSoFar(t, f, p), EventAt(t, Len(t) + 1).result \notin Stops
    PROVE  WholeText(t) = [result |-> "unfinished", partial |-> p \o EventAt(t, Len(t) + 1).partial]
<1> DEFINE n == Len(t)
<1>0. n \in Nat /\ EventEnds(t) \subseteq 1..(n + 1) /\ n + 1 \in EventEnds(t) /\ n + 1 \in 1..(n + 1)
  BY EndsIs
<1>1. StopsAt(t) = {}
  <2>1. ASSUME NEW k \in EventEnds(t), EventAt(t, k).result \in Stops PROVE FALSE
    <3>1. k # n + 1
      BY <2>1
    <3>2. k <= n
      BY <1>0, <3>1
    <3> QED
      BY <2>1, <3>2 DEF SaysSoFar
  <2> QED
    BY <2>1 DEF StopsAt
<1>2. DeltasTo(t, (n + 1) + 1) = DeltasTo(t, n + 1) \o DeltaAt(t, n + 1)
  BY <1>0, OneMoreDelta
<1>3. DeltaAt(t, n + 1) = EventAt(t, n + 1).partial /\ DeltasTo(t, n + 1) = p
  BY <1>0 DEF DeltaAt, SaysSoFar
<1>4. n + 2 = (n + 1) + 1
  BY <1>0
<1>5. WholeText(t) = [result |-> "unfinished", partial |-> DeltasTo(t, n + 2)]
  BY <1>1, WholeTextIs
<1> HIDE DEF n
<1> QED
  BY <1>2, <1>3, <1>4, <1>5 DEF n

\* Of a text that ends with what is made of the bytes b.
LEMMA WholeIs ==
    ASSUME NEW t \in Seq(Byte), NEW f, NEW p \in Seq(Byte), SaysSoFar(t, f, p), NEW b \in Seq(Byte),
           SubSeq(t, f + 1, Len(t)) = Normalised(b)
    PROVE  WholeText(t) = SaidBy(SseEvent(p, b))
<1> DEFINE E == SseEvent(p, b)
           D == SseEvent(<<>>, b)
<1>1. EventAt(t, Len(t) + 1) = D
  BY LastEvent, EventAlike
<1>2. /\ E = [result |-> E.result, partial |-> E.partial] /\ E.result = D.result
      /\ E.result = "final" => E = D
      /\ E.result # "final" => E.partial = p \o D.partial
      /\ E.result = "error" => E.partial = p
  BY EventIs
<1>3. Len(t) + 1 \in EventEnds(t) /\ StartsText(t, t)
  BY EndsIs DEF StartsText
<1> HIDE DEF E, D
<1>4. CASE E.result \in Stops
  <2>1. WholeText(t) = IF D.result = "final" THEN D ELSE [result |-> "error", partial |-> p]
    BY <1>1, <1>2, <1>3, <1>4, TextStops
  <2>2. E.result = "final" \/ E.result = "error"
    BY <1>4 DEF Stops
  <2>3. CASE E.result = "final"
    <3>1. WholeText(t) = E /\ E.result = "final"
      BY <1>2, <2>1, <2>3
    <3> QED
      BY <1>2, <1>4, <3>1 DEF E, SaidBy
  <2>4. CASE E.result = "error"
    <3>1. WholeText(t) = [result |-> E.result, partial |-> E.partial]
      BY <1>2, <2>1, <2>4
    <3> QED
      BY <1>4, <3>1 DEF E, SaidBy
  <2> QED
    BY <2>2, <2>3, <2>4
<1>5. CASE E.result \notin Stops
  <2>1. WholeText(t) = [result |-> "unfinished", partial |-> p \o D.partial]
    BY <1>1, <1>2, <1>5, TextIsOver
  <2>2. E.partial = p \o D.partial
    BY <1>2, <1>5 DEF Stops
  <2> QED
    BY <1>5, <2>1, <2>2 DEF E, SaidBy
<1> QED
  BY <1>4, <1>5
-----------------------------------------------------------------------------
\* Parts of the bytes.
LEMMA PartIs ==
    ASSUME NEW w \in Seq(Byte), NEW s \in Nat, NEW k \in s..Len(w)
    PROVE  /\ SubSeq(w, s + 1, k) \in Seq(Byte) /\ Len(SubSeq(w, s + 1, k)) = k - s
           /\ \A i \in 1..(k - s) : SubSeq(w, s + 1, k)[i] = w[s + i]
           /\ k # s => SubSeq(w, s + 1, k)[k - s] = w[k]
           /\ k = s => SubSeq(w, s + 1, k) = <<>>
<1>0. Len(w) \in Nat /\ k \in Nat /\ s + 1 \in Int /\ k \in Int /\ \A i \in (s + 1)..k : w[i] \in Byte
  OBVIOUS
<1> DEFINE q == SubSeq(w, s + 1, k)
<1>1. /\ q \in Seq(Byte)
      /\ Len(q) = IF s + 1 <= k THEN k - (s + 1) + 1 ELSE 0
      /\ \A i \in 1..k - (s + 1) + 1 : q[i] = w[(s + 1) + i - 1]
  BY <1>0, SubSeqProperties
<1> HIDE DEF q
<1>2. k - (s + 1) + 1 = k - s /\ Len(q) = k - s
  BY <1>0, <1>1
<1>3. ASSUME NEW i \in 1..(k - s) PROVE q[i] = w[s + i]
  <2>1. (s + 1) + i - 1 = s + i /\ i \in 1..k - (s + 1) + 1
    BY <1>0, <1>2
  <2>2. q[i] = w[(s + 1) + i - 1]
    BY <1>1, <2>1
  <2> QED
    BY <2>1, <2>2
<1>4. k # s => k - s \in 1..(k - s) /\ s + (k - s) = k
  BY <1>0
<1>5. k = s => q = <<>>
  BY <1>1, <1>2
<1> QED
  BY <1>1, <1>2, <1>3, <1>4, <1>5 DEF q

\* A part with the next byte.
LEMMA PartGrows ==
    ASSUME NEW w \in Seq(Byte), NEW s \in Nat, NEW k \in s..(Len(w) - 1)
    PROVE  SubSeq(w, s + 1, k + 1) = Append(SubSeq(w, s + 1, k), w[k + 1]) /\ w[k + 1] \in Byte
<1> DEFINE q == SubSeq(w, s + 1, k)
           r == SubSeq(w, s + 1, k + 1)
           c == w[k + 1]
           u == Append(q, c)
<1>0. Len(w) \in Nat /\ k \in s..Len(w) /\ k + 1 \in s..Len(w) /\ c \in Byte
  OBVIOUS
<1>1. q \in Seq(Byte) /\ Len(q) = k - s /\ \A i \in 1..(k - s) : q[i] = w[s + i]
  BY <1>0, PartIs
<1>2. r \in Seq(Byte) /\ Len(r) = (k + 1) - s /\ \A i \in 1..((k + 1) - s) : r[i] = w[s + i]
  BY <1>0, PartIs
<1>3. u \in Seq(Byte) /\ Len(u) = Len(q) + 1 /\ u[Len(q) + 1] = c /\ \A i \in 1..Len(q) : u[i] = q[i]
  BY <1>0, <1>1, OneByteMore
<1> HIDE DEF q, r, u
<1>4. Len(r) = Len(u)
  BY <1>1, <1>2, <1>3
<1>5. ASSUME NEW i \in 1..Len(r) PROVE r[i] = u[i]
  <2>1. i \in 1..((k + 1) - s) /\ (i \in 1..(k - s) \/ (i = Len(q) + 1 /\ s + i = k + 1))
    BY <1>0, <1>1, <1>2
  <2>2. r[i] = w[s + i]
    BY <1>2, <2>1
  <2>3. CASE i \in 1..(k - s)
    BY <1>1, <1>3, <2>2, <2>3
  <2>4. CASE i = Len(q) + 1 /\ s + i = k + 1
    BY <1>3, <2>2, <2>4
  <2> QED
    BY <2>1, <2>3, <2>4
<1>6. r = u
  BY <1>2, <1>3, <1>4, <1>5, SeqEqual
<1> QED
  BY <1>0, <1>6 DEF r, u, q

\* All of the bytes, and none of them.
LEMMA AllOf == ASSUME NEW w \in Seq(Byte) PROVE Upto(w, Len(w)) = w /\ Upto(w, 0) = <<>>
<1>0. Len(w) \in Nat /\ Len(w) \in 0..Len(w) /\ 0 \in Nat /\ 0 + 1 = 1 /\ Len(w) - 0 = Len(w) /\ 0 \in 0..Len(w)
  OBVIOUS
<1> DEFINE q == SubSeq(w, 0 + 1, Len(w))
<1>1. q \in Seq(Byte) /\ Len(q) = Len(w) - 0 /\ \A i \in 1..(Len(w) - 0) : q[i] = w[0 + i]
  BY <1>0, PartIs
<1>2. SubSeq(w, 0 + 1, 0) = <<>>
  BY <1>0, PartIs
<1> HIDE DEF q
<1>3. Len(q) = Len(w) /\ \A i \in 1..Len(q) : q[i] = w[i]
  <2> SUFFICES ASSUME NEW i \in 1..Len(w) PROVE q[i] = w[i]
    BY <1>0, <1>1
  <2>1. i \in 1..(Len(w) - 0) /\ 0 + i = i
    BY <1>0
  <2> QED
    BY <1>1, <2>1
<1>4. q = w
  BY <1>1, <1>3, SeqEqual
<1>5. Upto(w, Len(w)) = q /\ Upto(w, 0) = SubSeq(w, 0 + 1, 0)
  BY <1>0 DEF Upto, q
<1> QED
  BY <1>2, <1>4, <1>5

\* One byte more, or a whole line break, is one more in the text.
LEMMA ByteNormalised ==
    ASSUME NEW w \in Seq(Byte), NEW s \in Nat, NEW k \in s..(Len(w) - 1)
    PROVE  /\ Normalised(SubSeq(w, s + 1, k)) \in Seq(Byte)
           /\ w[k + 1] = CR => Normalised(SubSeq(w, s + 1, k + 1)) = Append(Normalised(SubSeq(w, s + 1, k)), LF)
           /\ w[k + 1] = LF /\ k # s /\ w[k] = CR =>
                Normalised(SubSeq(w, s + 1, k + 1)) = Normalised(SubSeq(w, s + 1, k))
           /\ w[k + 1] # CR /\ ~(w[k + 1] = LF /\ k # s /\ w[k] = CR) =>
                Normalised(SubSeq(w, s + 1, k + 1)) = Append(Normalised(SubSeq(w, s + 1, k)), w[k + 1])
<1> DEFINE q == SubSeq(w, s + 1, k)
           c == w[k + 1]
           m == Normalised(q)
           r == SubSeq(w, s + 1, k + 1)
<1>0. k \in s..Len(w) /\ k \in Nat /\ Len(w) \in Nat
  OBVIOUS
<1>1. r = Append(q, c) /\ c \in Byte
  BY PartGrows
<1>2. q \in Seq(Byte) /\ Len(q) = k - s /\ (k # s => q[k - s] = w[k])
  BY <1>0, PartIs
<1>3. m \in Seq(Byte) /\ Normalised(Append(q, c)) =
        m \o (IF c = CR THEN <<LF>> ELSE IF c = LF /\ Len(q) # 0 /\ q[Len(q)] = CR THEN <<>> ELSE <<c>>)
  BY <1>1, <1>2, NormalisedAppend
<1>4. Len(q) # 0 /\ q[Len(q)] = CR <=> k # s /\ w[k] = CR
  BY <1>0, <1>2
<1> HIDE DEF q, m, c, r
<1>5. m \o <<>> = m
  BY <1>3, ConcatEmptySeq
<1>6. m \o <<LF>> = Append(m, LF) /\ m \o <<c>> = Append(m, c)
  BY <1>1, <1>3, BytesTyped, AppendIsConcat
<1>7. c = CR => Normalised(r) = Append(m, LF)
  <2>1. c = CR => Normalised(r) = m \o <<LF>>
    BY <1>1, <1>3
  <2> QED
    BY <1>6, <2>1
<1>8. c = LF /\ k # s /\ w[k] = CR => Normalised(r) = m
  <2>1. c = LF /\ k # s /\ w[k] = CR => Normalised(r) = m \o <<>>
    BY <1>1, <1>3, <1>4, BytesTyped
  <2> QED
    BY <1>5, <2>1
<1>9. c # CR /\ ~(c = LF /\ k # s /\ w[k] = CR) => Normalised(r) = Append(m, c)
  <2>1. c # CR /\ ~(c = LF /\ k # s /\ w[k] = CR) => Normalised(r) = m \o <<c>>
    BY <1>1, <1>3, <1>4
  <2> QED
    BY <1>6, <2>1
<1> QED
  BY <1>3, <1>7, <1>8, <1>9 DEF q, m, c, r

BreakEnd(w, a) == IF w[a + 1] = CR /\ a + 1 < Len(w) /\ w[a + 2] = LF THEN a + 2 ELSE a + 1
\* A line break, of one byte or of two, becomes one line feed.
LEMMA BreakNormalised ==
    ASSUME NEW w \in Seq(Byte), NEW s \in Nat, NEW a \in s..(Len(w) - 1), Between(w, a), w[a + 1] \in LineBreaks
    PROVE  Normalised(SubSeq(w, s + 1, BreakEnd(w, a))) = Append(Normalised(SubSeq(w, s + 1, a)), LF)
<1>0. a \in Nat /\ Len(w) \in Nat /\ a + 1 \in Nat /\ (a + 1) + 1 = a + 2
  OBVIOUS
<1>1. CASE w[a + 1] = CR /\ a + 1 < Len(w) /\ w[a + 2] = LF
  <2>1. Normalised(SubSeq(w, s + 1, a + 1)) = Append(Normalised(SubSeq(w, s + 1, a)), LF)
    BY <1>1, ByteNormalised
  <2>2. a + 1 \in s..(Len(w) - 1) /\ w[(a + 1) + 1] = LF /\ a + 1 # s
    BY <1>0, <1>1
  <2>3. Normalised(SubSeq(w, s + 1, (a + 1) + 1)) = Normalised(SubSeq(w, s + 1, a + 1))
    BY <1>1, <2>2, ByteNormalised
  <2>4. BreakEnd(w, a) = (a + 1) + 1
    BY <1>0, <1>1 DEF BreakEnd
  <2> QED
    BY <2>1, <2>3, <2>4
<1>2. CASE ~(w[a + 1] = CR /\ a + 1 < Len(w) /\ w[a + 2] = LF)
  <2>1. BreakEnd(w, a) = a + 1
    BY <1>2 DEF BreakEnd
  <2>2. CASE w[a + 1] = CR
    <3>1. Normalised(SubSeq(w, s + 1, a + 1)) = Append(Normalised(SubSeq(w, s + 1, a)), LF)
      BY <2>2, ByteNormalised
    <3> QED
      BY <2>1, <3>1
  <2>3. CASE w[a + 1] # CR
    <3>1. w[a + 1] = LF
      BY <2>3, BytesTyped
    <3>2. a # s => w[a] # CR
      BY <1>0, <3>1 DEF Between
    <3>3. Normalised(SubSeq(w, s + 1, a + 1)) = Append(Normalised(SubSeq(w, s + 1, a)), w[a + 1])
      BY <2>3, <3>2, ByteNormalised
    <3> QED
      BY <2>1, <3>1, <3>3
  <2> QED
    BY <2>2, <2>3
<1> QED
  BY <1>1, <1>2

\* The end of a line break.
LEMMA BreakEndIs ==
    ASSUME NEW w \in Seq(Byte), NEW a \in 0..(Len(w) - 1), w[a + 1] \in LineBreaks
    PROVE  /\ BreakEnd(w, a) \in (a + 1)..Len(w) /\ w[BreakEnd(w, a)] \in LineBreaks
           /\ ~(w[a + 1] = CR /\ a + 1 = Len(w)) => Between(w, BreakEnd(w, a))
<1>0. a \in Nat /\ Len(w) \in Nat /\ (a + 1) + 1 = a + 2
  OBVIOUS
<1>1. CASE w[a + 1] = CR /\ a + 1 < Len(w) /\ w[a + 2] = LF
  <2>1. BreakEnd(w, a) = a + 2
    BY <1>1 DEF BreakEnd
  <2>2. w[a + 2] \in LineBreaks /\ w[a + 2] # CR /\ a + 2 \in (a + 1)..Len(w)
    BY <1>0, <1>1, BytesTyped
  <2> QED
    BY <2>1, <2>2 DEF Between
<1>2. CASE ~(w[a + 1] = CR /\ a + 1 < Len(w) /\ w[a + 2] = LF)
  <2>1. BreakEnd(w, a) = a + 1
    BY <1>2 DEF BreakEnd
  <2>2. a + 1 \in (a + 1)..Len(w) /\ (a + 1 # Len(w) => a + 1 < Len(w))
    BY <1>0
  <2>3. ~(w[a + 1] = CR /\ a + 1 = Len(w)) => Between(w, a + 1)
    BY <1>0, <1>2, <2>2 DEF Between
  <2> QED
    BY <2>1, <2>2, <2>3
<1> QED
  BY <1>1, <1>2

\* What a body is made into begins with what its beginning is made into.
LEMMA NormalisedBegins ==
    ASSUME NEW w \in Seq(Byte), NEW k \in 0..Len(w)
    PROVE  StartsText(Normalised(Upto(w, k)), Normalised(w))
<1> DEFINE N(j) == Normalised(SubSeq(w, 0 + 1, j))
           Bad == {j \in k..Len(w) : ~StartsText(N(k), N(j))}
<1>0. Len(w) \in Nat /\ k \in Nat /\ 0 \in Nat /\ 0 + 1 = 1 /\ Len(w) \in k..Len(w)
  OBVIOUS
<1>1. Bad = {}
  <2>1. SUFFICES ASSUME Bad # {} PROVE FALSE
    OBVIOUS
  <2>2. Bad \in SUBSET Nat
    BY <1>0
  <2>3. PICK m \in Bad : \A j \in Bad : m <= j
    BY ONLY <2>1, <2>2, LeastNumber
  <2>4. m # k
    <3>1. StartsText(N(k), N(k))
      <4>1. SubSeq(w, 0 + 1, k) \in Seq(Byte)
        BY <1>0, PartIs
      <4>2. N(k) \in Seq(Byte)
        BY <4>1, NormalisedAlike DEF Alike
      <4> QED
        BY <4>2 DEF StartsText
    <3> QED
      BY <2>3, <3>1
  <2>5. m \in (k + 1)..Len(w) /\ m - 1 \in k..Len(w) /\ m - 1 \in 0..(Len(w) - 1) /\ (m - 1) + 1 = m /\ ~(m <= m - 1)
    BY <1>0, <2>3, <2>4
  <2>6. StartsText(N(k), N(m - 1))
    BY <2>3, <2>5
  <2>7. N(m - 1) \in Seq(Byte) /\ \E c \in Byte : N(m) \in {Append(N(m - 1), c), N(m - 1)}
    <3>1. /\ N(m - 1) \in Seq(Byte) /\ w[(m - 1) + 1] \in Byte
          /\ N((m - 1) + 1) \in {Append(N(m - 1), LF), N(m - 1), Append(N(m - 1), w[(m - 1) + 1])}
      BY <1>0, <2>5, ByteNormalised, PartGrows
    <3>2. N((m - 1) + 1) = N(m)
      BY <2>5
    <3> QED
      BY <3>1, <3>2, BytesTyped
  <2>8. PICK c \in Byte : N(m) \in {Append(N(m - 1), c), N(m - 1)}
    BY <2>7
  <2> HIDE DEF N
  <2>9. StartsText(N(m - 1), N(m))
    BY <2>7, <2>8, TextBegins
  <2>10. StartsText(N(k), N(m))
    <3>1. Len(N(k)) <= Len(N(m - 1)) /\ Len(N(m - 1)) <= Len(N(m)) /\ Len(N(k)) \in Nat
          /\ Len(N(m - 1)) \in Nat /\ Len(N(m)) \in Nat
      <4>1. Len(N(m - 1)) \in Nat
        BY <2>7
      <4>2. N(m) \in Seq(Byte)
        BY <2>7, <2>8, OneByteMore
      <4>3. N(k) \in Seq(Byte)
        <5>1. SubSeq(w, 0 + 1, k) \in Seq(Byte)
          BY <1>0, PartIs
        <5> QED
          BY <5>1, NormalisedAlike DEF Alike, N
      <4> QED
        BY <2>6, <2>9, <4>1, <4>2, <4>3 DEF StartsText
    <3> QED
      BY <2>6, <2>9, <3>1 DEF StartsText
  <2> QED
    BY <2>3, <2>10 DEF N
<1>2. StartsText(N(k), N(Len(w)))
  BY <1>0, <1>1
<1>3. N(k) = Normalised(Upto(w, k)) /\ N(Len(w)) = Normalised(w)
  BY <1>0, AllOf DEF Upto
<1> HIDE DEF N
<1> QED
  BY <1>2, <1>3
-----------------------------------------------------------------------------
\* The bytes that are read.
LEMMA BehindConcat ==
    ASSUME NEW x \in Seq(Byte), NEW y \in Seq(Byte)
    PROVE  SubSeq(x \o y, Len(x) + 1, Len(x \o y)) = y /\ x \o y \in Seq(Byte) /\ Len(x \o y) = Len(x) + Len(y)
<1> DEFINE z == x \o y
           n == Len(x)
           q == SubSeq(z, n + 1, Len(z))
<1>1. z \in Seq(Byte) /\ Len(z) = n + Len(y) /\ n \in Nat /\ Len(y) \in Nat
      /\ \A i \in 1..n + Len(y) : z[i] = IF i <= n THEN x[i] ELSE y[i - n]
  BY ConcatProperties
<1> HIDE DEF z
<1>2. Len(z) \in n..Len(z) /\ Len(z) - n = Len(y)
  BY <1>1
<1>3. q \in Seq(Byte) /\ Len(q) = Len(z) - n /\ \A i \in 1..(Len(z) - n) : q[i] = z[n + i]
  BY <1>1, <1>2, PartIs
<1>4. \A i \in 1..Len(y) : z[n + i] = y[i]
  <2> SUFFICES ASSUME NEW i \in 1..Len(y) PROVE z[n + i] = y[i]
    OBVIOUS
  <2>1. n + i \in 1..n + Len(y) /\ ~(n + i <= n) /\ (n + i) - n = i
    BY <1>1
  <2> QED
    BY <1>1, <2>1
<1> HIDE DEF q, n
<1>5. Len(q) = Len(y) /\ \A i \in 1..Len(q) : q[i] = y[i]
  BY <1>2, <1>3, <1>4
<1>6. q = y
  BY <1>3, <1>5, SeqEqual
<1> QED
  BY <1>1, <1>6 DEF z, q, n

\* A byte more is a byte more of the second part.
LEMMA AppendConcat ==
    ASSUME NEW x \in Seq(Byte), NEW y \in Seq(Byte), NEW c \in Byte
    PROVE  Append(x \o y, c) = x \o Append(y, c)
<1> DEFINE z == x \o y
           e == <<c>>
           r == Append(y, c)
<1>1. z \in Seq(Byte) /\ e \in Seq(Byte)
  OBVIOUS
<1>2. Append(z, c) = z \o e
  BY <1>1, AppendIsConcat
<1>3. r = y \o e
  BY AppendIsConcat
<1>4. (x \o y) \o e = x \o (y \o e)
  BY <1>1, Regroup
<1> HIDE DEF e, r
<1> QED
  BY <1>2, <1>3, <1>4, Zenon DEF r, z

\* What a HasRead says of the text.
LEMMA ReadIs ==
    ASSUME NEW w \in Seq(Byte), NEW s, NEW l, NEW a, NEW p, HasRead(w, s, l, a, p)
    PROVE  /\ s \in 0..a /\ l \in s..a /\ a \in 0..Len(w) /\ Len(w) \in Nat
           /\ SubSeq(w, s + 1, a) \in Seq(Byte)
           /\ Normalised(Upto(w, s)) \in Seq(Byte) /\ Normalised(SubSeq(w, s + 1, a)) \in Seq(Byte)
           /\ Normalised(Upto(w, a)) \in Seq(Byte) /\ p \in Seq(Byte)
           /\ Len(Normalised(Upto(w, a))) = 0 <=> a = 0
           /\ a # 0 => (w[a] \in LineBreaks <=> Normalised(Upto(w, a))[Len(Normalised(Upto(w, a)))] = LF)
           /\ l = a => a = 0 \/ w[a] \in LineBreaks
           /\ l # a => a # 0 /\ w[a] \notin LineBreaks
<1> DEFINE t == Normalised(Upto(w, a))
<1>1. s \in 0..a /\ l \in s..a /\ a \in 0..Len(w) /\ Len(w) \in Nat
  BY DEF HasRead
<1>2. Upto(w, a) \in Seq(Byte) /\ Len(Upto(w, a)) = a /\ (a # 0 => Upto(w, a)[a] = w[a])
  <2>1. 0 \in Nat /\ 0 + 1 = 1 /\ a - 0 = a /\ a \in 0..Len(w)
    BY <1>1
  <2>2. SubSeq(w, 0 + 1, a) \in Seq(Byte) /\ Len(SubSeq(w, 0 + 1, a)) = a - 0 /\ (a # 0 => SubSeq(w, 0 + 1, a)[a - 0] = w[a])
    BY <2>1, PartIs
  <2> QED
    BY <2>1, <2>2 DEF Upto
<1>3. Upto(w, s) \in Seq(Byte) /\ SubSeq(w, s + 1, a) \in Seq(Byte)
  <2>1. 0 \in Nat /\ 0 + 1 = 1 /\ s \in 0..Len(w) /\ s \in Nat /\ a \in s..Len(w)
    BY <1>1
  <2>2. SubSeq(w, 0 + 1, s) \in Seq(Byte) /\ SubSeq(w, s + 1, a) \in Seq(Byte)
    BY <2>1, PartIs
  <2> QED
    BY <2>1, <2>2 DEF Upto
<1>4. Alike(t, Upto(w, a)) /\ Normalised(Upto(w, s)) \in Seq(Byte) /\ Normalised(SubSeq(w, s + 1, a)) \in Seq(Byte)
  BY <1>2, <1>3, NormalisedAlike DEF Alike
<1>5. /\ t \in Seq(Byte) /\ (Len(t) = 0 <=> a = 0)
      /\ a # 0 => /\ w[a] \in LineBreaks => t[Len(t)] = LF
                  /\ w[a] \notin LineBreaks => t[Len(t)] = w[a]
  BY <1>2, <1>4 DEF Alike
<1>6. p \in Seq(Byte)
  <2>1. p = DeltasTo(t, Len(t) + 1)
    BY DEF HasRead, SaysSoFar
  <2>2. t \in Seq(Byte) /\ Len(t) + 1 \in 1..(Len(t) + 1)
    BY <1>5
  <2> HIDE DEF t
  <2>3. DeltasTo(t, Len(t) + 1) \in Seq(Byte)
    BY <2>2, OneMoreDelta
  <2> QED
    BY <2>1, <2>3
<1> HIDE DEF t
<1>7. l = a => a = 0 \/ w[a] \in LineBreaks
  BY <1>1 DEF HasRead
<1>8. l # a => a # 0 /\ w[a] \notin LineBreaks
  <2>1. l # a => a \in (l + 1)..a /\ a # 0
    BY <1>1
  <2> QED
    BY <2>1 DEF HasRead
<1>9. a # 0 => (w[a] \in LineBreaks <=> t[Len(t)] = LF)
  BY <1>5, BytesTyped
<1> QED
  BY <1>1, <1>3, <1>4, <1>5, <1>6, <1>7, <1>8, <1>9 DEF t

\* A byte that breaks no line.
LEMMA ReadsOther ==
    ASSUME NEW w \in Seq(Byte), NEW s, NEW l, NEW a, NEW p, HasRead(w, s, l, a, p),
           a < Len(w), w[a + 1] \notin LineBreaks
    PROVE  HasRead(w, s, l, a + 1, p)
<1> DEFINE t == Normalised(Upto(w, a))
           x == Normalised(Upto(w, s))
           m == Normalised(SubSeq(w, s + 1, a))
           c == w[a + 1]
<1>1. /\ s \in 0..a /\ l \in s..a /\ a \in 0..Len(w) /\ Len(w) \in Nat
      /\ x \in Seq(Byte) /\ m \in Seq(Byte) /\ t \in Seq(Byte) /\ p \in Seq(Byte)
  BY ReadIs
<1>2. a \in s..(Len(w) - 1) /\ a \in 0..(Len(w) - 1) /\ s \in Nat /\ 0 \in Nat /\ 0 + 1 = 1
  BY <1>1
<1>3. c \in Byte /\ c # LF /\ c # CR
  BY <1>2, PartGrows, BytesTyped
<1>4. Normalised(Upto(w, a + 1)) = Append(t, c)
  <2>1. Normalised(SubSeq(w, 0 + 1, a + 1)) = Append(Normalised(SubSeq(w, 0 + 1, a)), c)
    BY <1>2, <1>3, ByteNormalised
  <2> QED
    BY <1>2, <2>1 DEF Upto
<1>5. Normalised(SubSeq(w, s + 1, a + 1)) = Append(m, c)
  BY <1>2, <1>3, ByteNormalised
<1>6. t = x \o m /\ SaysSoFar(t, Len(x), p)
  BY DEF HasRead
<1> HIDE DEF t, x, m
<1>7. Append(t, c) = x \o Append(m, c)
  BY <1>1, <1>3, <1>6, AppendConcat
<1>8. SaysSoFar(Append(t, c), Len(x), p)
  BY <1>1, <1>3, <1>6, TextGrows
<1>9. /\ s \in 0..(a + 1) /\ l \in s..(a + 1) /\ a + 1 \in 0..Len(w)
      /\ Between(w, s) /\ Between(w, a + 1)
      /\ (s # 0 => w[s] \in LineBreaks) /\ (l # s => w[l] \in LineBreaks)
      /\ \A k \in (l + 1)..(a + 1) : w[k] \notin LineBreaks
  <2>1. \A k \in (l + 1)..(a + 1) : k = a + 1 \/ k \in (l + 1)..a
    BY <1>1
  <2>2. Between(w, a + 1)
    BY <1>3 DEF Between
  <2>3. s \in 0..(a + 1) /\ l \in s..(a + 1) /\ a + 1 \in 0..Len(w)
    BY <1>1, <1>2
  <2> QED
    BY <2>1, <2>2, <2>3 DEF HasRead
<1>10. Normalised(Upto(w, a + 1)) = Normalised(Upto(w, s)) \o Normalised(SubSeq(w, s + 1, a + 1))
  BY <1>4, <1>5, <1>7, Zenon DEF x
<1>11. SaysSoFar(Normalised(Upto(w, a + 1)), Len(Normalised(Upto(w, s))), p)
  BY <1>4, <1>8 DEF x
<1> QED
  BY <1>9, <1>10, <1>11 DEF HasRead

\* The text with a line break more.
LEMMA BreakRead ==
    ASSUME NEW w \in Seq(Byte), NEW s, NEW l, NEW a, NEW p, HasRead(w, s, l, a, p),
           a < Len(w), w[a + 1] \in LineBreaks
    PROVE  /\ Normalised(Upto(w, BreakEnd(w, a))) = Append(Normalised(Upto(w, a)), LF)
           /\ Normalised(SubSeq(w, s + 1, BreakEnd(w, a))) = Append(Normalised(SubSeq(w, s + 1, a)), LF)
<1>1. s \in 0..a /\ a \in 0..Len(w) /\ Len(w) \in Nat /\ Between(w, a)
  BY DEF HasRead
<1>2. a \in s..(Len(w) - 1) /\ a \in 0..(Len(w) - 1) /\ s \in Nat /\ 0 \in Nat /\ 0 + 1 = 1
  BY <1>1
<1>3. Normalised(SubSeq(w, 0 + 1, BreakEnd(w, a))) = Append(Normalised(SubSeq(w, 0 + 1, a)), LF)
  BY <1>1, <1>2, BreakNormalised
<1>4. Normalised(SubSeq(w, s + 1, BreakEnd(w, a))) = Append(Normalised(SubSeq(w, s + 1, a)), LF)
  BY <1>1, <1>2, BreakNormalised
<1> QED
  BY <1>2, <1>3, <1>4 DEF Upto

\* The end of a line that says something.
LEMMA ReadsLine ==
    ASSUME NEW w \in Seq(Byte), NEW s, NEW l, NEW a, NEW p, HasRead(w, s, l, a, p),
           a < Len(w), w[a + 1] \in LineBreaks, ~(w[a + 1] = CR /\ a + 1 = Len(w)), l # a
    PROVE  HasRead(w, s, BreakEnd(w, a), BreakEnd(w, a), p)
<1> DEFINE t == Normalised(Upto(w, a))
           x == Normalised(Upto(w, s))
           m == Normalised(SubSeq(w, s + 1, a))
           b == BreakEnd(w, a)
<1>1. /\ s \in 0..a /\ l \in s..a /\ a \in 0..Len(w) /\ Len(w) \in Nat
      /\ x \in Seq(Byte) /\ m \in Seq(Byte) /\ t \in Seq(Byte) /\ p \in Seq(Byte)
      /\ Len(t) # 0 /\ t[Len(t)] # LF
  BY ReadIs
<1>2. b \in (a + 1)..Len(w) /\ w[b] \in LineBreaks /\ Between(w, b)
  <2>1. a \in 0..(Len(w) - 1)
    BY <1>1
  <2> QED
    BY <2>1, BreakEndIs
<1>4. Normalised(Upto(w, b)) = Append(t, LF) /\ Normalised(SubSeq(w, s + 1, b)) = Append(m, LF)
  BY BreakRead
<1>6. t = x \o m /\ SaysSoFar(t, Len(x), p)
  BY DEF HasRead
<1> HIDE DEF t, x, m, b
<1>7. Append(t, LF) = x \o Append(m, LF)
  BY <1>1, <1>6, AppendConcat, BytesTyped
<1>8. SaysSoFar(Append(t, LF), Len(x), p)
  BY <1>1, <1>6, TextGrows, BytesTyped
<1>9. /\ s \in 0..b /\ b \in s..b /\ b \in 0..Len(w)
      /\ Between(w, s) /\ Between(w, b)
      /\ (s # 0 => w[s] \in LineBreaks) /\ (b # s => w[b] \in LineBreaks)
      /\ \A k \in (b + 1)..b : w[k] \notin LineBreaks
  <2>1. \A k \in (b + 1)..b : FALSE
    BY <1>1, <1>2
  <2>3. s \in 0..b /\ b \in s..b /\ b \in 0..Len(w)
    BY <1>1, <1>2
  <2>4. Between(w, s) /\ (s # 0 => w[s] \in LineBreaks)
    BY DEF HasRead
  <2> QED
    BY <1>2, <2>1, <2>3, <2>4
<1>10. Normalised(Upto(w, b)) = Normalised(Upto(w, s)) \o Normalised(SubSeq(w, s + 1, b))
  BY <1>4, <1>7, Zenon DEF x
<1>11. SaysSoFar(Normalised(Upto(w, b)), Len(Normalised(Upto(w, s))), p)
  BY <1>4, <1>8 DEF x
<1>12. HasRead(w, s, b, b, p)
  BY <1>9, <1>10, <1>11 DEF HasRead
<1> QED
  BY <1>12 DEF b

\* The event at hand, as it is in the text.
LEMMA EventRead ==
    ASSUME NEW w \in Seq(Byte), NEW s, NEW l, NEW a, NEW p, HasRead(w, s, l, a, p)
    PROVE  /\ SubSeq(Normalised(Upto(w, a)), Len(Normalised(Upto(w, s))) + 1, Len(Normalised(Upto(w, a))))
                = Normalised(SubSeq(w, s + 1, a))
           /\ EventAt(Normalised(Upto(w, a)), Len(Normalised(Upto(w, a))) + 1) = SseEvent(<<>>, SubSeq(w, s + 1, a))
<1> DEFINE t == Normalised(Upto(w, a))
           x == Normalised(Upto(w, s))
           m == Normalised(SubSeq(w, s + 1, a))
<1>1. x \in Seq(Byte) /\ m \in Seq(Byte) /\ t \in Seq(Byte) /\ SubSeq(w, s + 1, a) \in Seq(Byte)
  BY ReadIs
<1>2. SseEvent(<<>>, m) = SseEvent(<<>>, SubSeq(w, s + 1, a))
  BY <1>1, EventAlike
<1>6. t = x \o m /\ SaysSoFar(t, Len(x), p)
  BY DEF HasRead
<1> HIDE DEF t, x, m
<1>3. SubSeq(t, Len(x) + 1, Len(t)) = m
  <2>1. SubSeq(x \o m, Len(x) + 1, Len(x \o m)) = m
    BY <1>1, BehindConcat
  <2> QED
    BY ONLY <1>6, <2>1
<1>4. EventAt(t, Len(t) + 1) = SseEvent(<<>>, m)
  BY <1>1, <1>3, <1>6, LastEvent
<1> QED
  BY <1>2, <1>3, <1>4 DEF t, x, m

\* The blank line behind an event.
LEMMA ReadsEvent ==
    ASSUME NEW w \in Seq(Byte), NEW s, NEW l, NEW a, NEW p, HasRead(w, s, l, a, p),
           a < Len(w), w[a + 1] \in LineBreaks, ~(w[a + 1] = CR /\ a + 1 = Len(w)), l = a,
           SseEvent(p, SubSeq(w, s + 1, a)).result \notin Stops
    PROVE  HasRead(w, BreakEnd(w, a), BreakEnd(w, a), BreakEnd(w, a), SseEvent(p, SubSeq(w, s + 1, a)).partial)
<1> DEFINE t == Normalised(Upto(w, a))
           b == BreakEnd(w, a)
           q == SubSeq(w, s + 1, a)
           E == SseEvent(p, q)
           D == SseEvent(<<>>, q)
<1>1. /\ s \in 0..a /\ a \in 0..Len(w) /\ Len(w) \in Nat /\ q \in Seq(Byte)
      /\ t \in Seq(Byte) /\ p \in Seq(Byte) /\ (Len(t) # 0 => t[Len(t)] = LF)
  BY ReadIs
<1>2. b \in (a + 1)..Len(w) /\ w[b] \in LineBreaks /\ Between(w, b)
  <2>1. a \in 0..(Len(w) - 1)
    BY <1>1
  <2> QED
    BY <2>1, BreakEndIs
<1>4. Normalised(Upto(w, b)) = Append(t, LF)
  BY BreakRead
<1>5. EventAt(t, Len(t) + 1) = D
  BY EventRead
<1>6. SaysSoFar(t, Len(Normalised(Upto(w, s))), p)
  BY DEF HasRead
<1>7. E.result = D.result /\ (E.result # "final" => E.partial = p \o D.partial)
  BY <1>1, EventIs
<1>8. E.result \notin Stops /\ E.result # "final"
  BY DEF Stops
<1> HIDE DEF t, b, q, E, D
<1>9. SaysSoFar(Append(t, LF), Len(t) + 1, p \o D.partial)
  BY <1>1, <1>5, <1>6, <1>7, <1>8, TextEnds
<1>10. SaysSoFar(Append(t, LF), Len(Append(t, LF)), E.partial)
  <2>1. Len(Append(t, LF)) = Len(t) + 1
    BY <1>1, BytesTyped, OneByteMore
  <2>2. E.partial = p \o D.partial
    BY <1>7, <1>8
  <2> QED
    BY ONLY <1>9, <2>1, <2>2
<1>11. SaysSoFar(Normalised(Upto(w, b)), Len(Normalised(Upto(w, b))), E.partial)
  BY ONLY <1>4, <1>10
<1>12. Normalised(Upto(w, b)) = Normalised(Upto(w, b)) \o Normalised(SubSeq(w, b + 1, b))
  <2>1. SubSeq(w, b + 1, b) = <<>> /\ b \in Nat
    <3>1. b \in Nat /\ b \in b..Len(w)
      BY <1>1, <1>2
    <3> QED
      BY <3>1, PartIs
  <2>2. Append(t, LF) \in Seq(Byte)
    BY <1>1, BytesTyped, OneByteMore
  <2>3. Normalised(Upto(w, b)) \in Seq(Byte)
    BY <1>4, <2>2
  <2>4. Normalised(Upto(w, b)) \o <<>> = Normalised(Upto(w, b))
    BY <2>3, ConcatEmptySeq
  <2> QED
    BY <2>1, <2>4, NoBytes
<1>13. b \in 0..b /\ b \in b..b /\ b \in 0..Len(w) /\ \A k \in (b + 1)..b : FALSE
  BY <1>1, <1>2
<1>14. HasRead(w, b, b, b, E.partial)
  BY <1>2, <1>11, <1>12, <1>13 DEF HasRead
<1> QED
  BY <1>14 DEF b, E, q

\* ... and behind the last one.
LEMMA ReadsLast ==
    ASSUME NEW w \in Seq(Byte), NEW s, NEW l, NEW a, NEW p, HasRead(w, s, l, a, p),
           a < Len(w), w[a + 1] \in LineBreaks, l = a,
           SseEvent(p, SubSeq(w, s + 1, a)).result \in Stops
    PROVE  WholeBody(w) = [result |-> SseEvent(p, SubSeq(w, s + 1, a)).result,
                           partial |-> SseEvent(p, SubSeq(w, s + 1, a)).partial]
<1> DEFINE t == Normalised(Upto(w, a))
           b == BreakEnd(w, a)
           q == SubSeq(w, s + 1, a)
           E == SseEvent(p, q)
           D == SseEvent(<<>>, q)
           u == Append(t, LF)
           z == Normalised(w)
<1>1. /\ s \in 0..a /\ a \in 0..Len(w) /\ Len(w) \in Nat /\ q \in Seq(Byte)
      /\ t \in Seq(Byte) /\ p \in Seq(Byte) /\ (Len(t) # 0 => t[Len(t)] = LF)
  BY ReadIs
<1>2. b \in (a + 1)..Len(w)
  <2>1. a \in 0..(Len(w) - 1)
    BY <1>1
  <2> QED
    BY <2>1, BreakEndIs
<1>3. StartsText(Normalised(Upto(w, b)), z)
  <2>1. b \in 0..Len(w)
    BY <1>1, <1>2
  <2> QED
    BY <2>1, NormalisedBegins
<1>4. Normalised(Upto(w, b)) = u
  BY BreakRead
<1>5. EventAt(t, Len(t) + 1) = D
  BY EventRead
<1>6. SaysSoFar(t, Len(Normalised(Upto(w, s))), p)
  BY DEF HasRead
<1>7. /\ E = [result |-> E.result, partial |-> E.partial] /\ E.result = D.result
      /\ E.result = "final" => E = D
      /\ E.result = "error" => E.partial = p
  BY <1>1, EventIs
<1>8. E.result = "final" \/ E.result = "error"
  BY DEF Stops
<1>9. z \in Seq(Byte)
  BY NormalisedAlike DEF Alike
<1>10. WholeBody(w) = WholeText(z)
  BY DEF WholeBody
<1>11. u \in Seq(Byte) /\ Len(u) = Len(t) + 1 /\ u[Len(t) + 1] = LF /\ (\A k \in 1..Len(t) : u[k] = t[k]) /\ Len(t) \in Nat
  BY <1>1, BytesTyped, OneByteMore
<1> HIDE DEF t, b, q, E, D, u, z
<1>12. StartsText(u, z)
  BY <1>3, <1>4
<1>13. Len(t) + 1 \in EventEnds(u)
  <2>1. Len(t) + 1 \in 1..Len(u) /\ (Len(t) + 1 = 1 <=> Len(t) = 0) /\ (Len(t) + 1) - 1 = Len(t)
        /\ (Len(t) # 0 => u[Len(t)] = t[Len(t)])
    BY <1>11
  <2> QED
    BY <1>1, <1>11, <2>1, EndsIs
<1>14. Len(t) + 1 \in EventEnds(z)
  <2>1. Len(t) + 1 \in 1..Len(u)
    BY <1>11
  <2> QED
    BY <1>9, <1>11, <1>12, <1>13, <2>1, SameEvents
<1>15. StartsText(t, z)
  BY <1>11, <1>12, <1>9, EndsIs DEF StartsText
<1>16. WholeText(z) = IF D.result = "final" THEN D ELSE [result |-> "error", partial |-> p]
  <2>1. EventAt(t, Len(t) + 1).result \in Stops
    BY <1>5, <1>7, <1>8 DEF Stops
  <2> QED
    BY <1>1, <1>5, <1>6, <1>9, <1>14, <1>15, <2>1, TextStops
<1>17. WholeText(z) = [result |-> E.result, partial |-> E.partial]
  <2>1. CASE E.result = "final"
    <3>1. WholeText(z) = E
      BY <1>7, <1>16, <2>1
    <3> QED
      BY <1>7, <3>1
  <2>2. CASE E.result = "error"
    BY <1>7, <1>16, <2>2
  <2> QED
    BY <1>8, <2>1, <2>2
<1>18. WholeBody(w) = [result |-> E.result, partial |-> E.partial]
  BY <1>10, <1>17
<1> QED
  BY <1>18 DEF E, q
\* An event without bytes says nothing.
LEMMA NothingInIt ==
    ASSUME NEW p \in Seq(Byte)
    PROVE  SseEvent(p, <<>>).result = "none" /\ SseEvent(p, <<>>).partial = p
<1>1. Data(<<>>) = <<>> /\ UnfinishedUtf8(<<>>)
  BY NoBytes
<1>2. Utf8(<<>>) /\ ~\E k \in DOMAIN <<>> : <<>>[k] = Fault
  BY <1>1 DEF Utf8
<1>3. SseEvent(p, <<>>) = [result |-> "none", partial |-> p]
  BY <1>1, <1>2 DEF SseEvent
<1> QED
  BY <1>3

\* The end of the body.
LEMMA ReadsAll ==
    ASSUME NEW w \in Seq(Byte), NEW s, NEW l, NEW a, NEW p, HasRead(w, s, l, a, p), AllButCr(w, a),
           NEW E, E = SseEvent(p, SubSeq(w, s + 1, Len(w)))
    PROVE  WholeBody(w) = SaidBy(E)
<1> DEFINE t == Normalised(Upto(w, a))
           x == Normalised(Upto(w, s))
           m == Normalised(SubSeq(w, s + 1, a))
           q == SubSeq(w, s + 1, a)
           z == Normalised(w)
<1>1. /\ s \in 0..a /\ l \in s..a /\ a \in 0..Len(w) /\ Len(w) \in Nat /\ q \in Seq(Byte)
      /\ x \in Seq(Byte) /\ m \in Seq(Byte) /\ t \in Seq(Byte) /\ p \in Seq(Byte)
      /\ l = a => a = 0 \/ w[a] \in LineBreaks
  BY ReadIs
<1>2. WholeBody(w) = WholeText(z)
  BY DEF WholeBody
<1>3. SaysSoFar(t, Len(x), p) /\ t = x \o m
  BY DEF HasRead
<1>4. Upto(w, Len(w)) = w
  BY AllOf
<1>5. CASE a = Len(w)
  <2>1. t = z /\ E = SseEvent(p, q)
    BY <1>4, <1>5
  <2>2. SubSeq(t, Len(x) + 1, Len(t)) = Normalised(q)
    BY EventRead
  <2> HIDE DEF t, x, m, q, z
  <2>3. q \in Seq(Byte) /\ t \in Seq(Byte) /\ p \in Seq(Byte) /\ SaysSoFar(t, Len(x), p)
    BY <1>1, <1>3
  <2>4. WholeText(t) = SaidBy(SseEvent(p, q))
    BY ONLY <2>2, <2>3, WholeIs, Zenon
  <2> QED
    BY <1>2, <2>1, <2>4
<1>6. CASE a = Len(w) - 1 /\ w[Len(w)] = CR
  <2> DEFINE r == SubSeq(w, s + 1, Len(w))
             u == Append(t, LF)
  <2>1. a + 1 = Len(w) /\ a < Len(w) /\ w[a + 1] = CR /\ w[a + 1] \in LineBreaks /\ a \in s..(Len(w) - 1) /\ s \in Nat
    BY <1>1, <1>6, BytesTyped
  <2>2. r = Append(q, CR)
    <3>1. SubSeq(w, s + 1, a + 1) = Append(q, w[a + 1])
      BY <2>1, PartGrows
    <3> QED
      BY <2>1, <3>1
  <2>3. BreakEnd(w, a) = Len(w)
    BY <1>1, <2>1 DEF BreakEnd
  <2>4. z = u /\ Normalised(r) = Append(m, LF)
    <3>1. Normalised(Upto(w, BreakEnd(w, a))) = u /\ Normalised(SubSeq(w, s + 1, BreakEnd(w, a))) = Append(m, LF)
      BY <2>1, BreakRead
    <3> QED
      BY <1>4, <2>3, <3>1
  <2>5. E = SseEvent(p, r)
    OBVIOUS
  <2>6. u \in Seq(Byte) /\ r \in Seq(Byte)
    BY <1>1, <2>2, BytesTyped, OneByteMore
  <2>7. CASE l # a
    <3>1. Len(t) # 0 /\ t[Len(t)] # LF
      BY <2>7, ReadIs
    <3> HIDE DEF t, x, m, q, z, r
    <3>2. SaysSoFar(u, Len(x), p)
      BY <1>1, <1>3, <3>1, BytesTyped, TextGrows
    <3>3. u = x \o Append(m, LF)
      BY <1>1, <1>3, BytesTyped, AppendConcat
    <3> HIDE DEF u
    <3>4. SubSeq(u, Len(x) + 1, Len(u)) = Normalised(r)
      <4>1. Append(m, LF) \in Seq(Byte)
        BY <1>1, BytesTyped, OneByteMore
      <4> DEFINE v == Append(m, LF)
      <4> HIDE DEF v
      <4>2. SubSeq(x \o v, Len(x) + 1, Len(x \o v)) = v
        BY <1>1, <4>1, BehindConcat DEF v
      <4>3. u = x \o v /\ Normalised(r) = v
        BY <2>4, <3>3 DEF v
      <4> QED
        BY ONLY <4>2, <4>3
    <3>5. WholeText(u) = SaidBy(SseEvent(p, r))
      <4>1. p \in Seq(Byte)
        BY <1>1
      <4> QED
        BY ONLY <2>6, <3>2, <3>4, <4>1, WholeIs, Zenon
    <3> QED
      BY <1>2, <2>4, <2>5, <3>5
  <2>8. CASE l = a
    <3>1. Len(t) # 0 => t[Len(t)] = LF
      BY <1>1, <2>8, ReadIs
    <3>2. SseEvent(p, r) = SseEvent(p, q)
      <4>1. Len(q) # 0 => q[Len(q)] \in LineBreaks
        <5>1. Len(q) = a - s /\ (a # s => q[a - s] = w[a])
          <6>1. s \in Nat /\ a \in s..Len(w)
            BY <1>1, <2>1
          <6> QED
            BY <6>1, PartIs
        <5>2. Len(q) # 0 => a # s /\ a # 0
          BY <1>1, <5>1
        <5> QED
          BY <1>1, <2>8, <5>1, <5>2
      <4>2. CR \in LineBreaks
        BY BytesTyped
      <4>3. q \in Seq(Byte)
        BY <1>1
      <4> HIDE DEF q, r
      <4>4. SseEvent(p, Append(q, CR)) = SseEvent(p, q)
        BY ONLY <4>1, <4>2, <4>3, BlankLine, Zenon
      <4> QED
        BY <2>2, <4>4
    <3>3. E = SseEvent(p, q)
      BY <2>5, <3>2
    <3>4. CASE E.result \in Stops
      <4>1. WholeBody(w) = [result |-> E.result, partial |-> E.partial]
        BY <2>1, <2>8, <3>3, <3>4, ReadsLast
      <4> QED
        BY <3>4, <4>1 DEF SaidBy
    <3>5. CASE E.result \notin Stops
      <4> DEFINE D == SseEvent(<<>>, q)
      <4>1. EventAt(t, Len(t) + 1) = D
        BY EventRead
      <4>2. E.result = D.result /\ (E.result # "final" => E.partial = p \o D.partial) /\ E.partial \in Seq(Byte)
        <5>1. q \in Seq(Byte) /\ p \in Seq(Byte)
          BY <1>1
        <5> DEFINE F == SseEvent(p, q)
        <5>2. F.result = D.result /\ (F.result # "final" => F.partial = p \o D.partial) /\ F.partial \in Seq(Byte)
          <6> HIDE DEF q
          <6> QED
            BY ONLY <5>1, EventIs, Zenon
        <5> QED
          BY <3>3, <5>2, Zenon
      <4>3. E.result # "final" /\ D.result \notin Stops
        BY <3>5, <4>2 DEF Stops
      <4> HIDE DEF t, x, m, q, z, r, D
      <4>4. SaysSoFar(u, Len(t) + 1, p \o D.partial)
        BY <1>1, <1>3, <3>1, <4>1, <4>3, TextEnds
      <4>5. Len(u) = Len(t) + 1 /\ p \o D.partial = E.partial
        BY <1>1, <4>2, <4>3, BytesTyped, OneByteMore
      <4>6. SaysSoFar(u, Len(u), E.partial)
        BY ONLY <4>4, <4>5
      <4> HIDE DEF u
      <4>7. SubSeq(u, Len(u) + 1, Len(u)) = Normalised(<<>>)
        <5>1. Len(u) \in Nat /\ Len(u) \in Len(u)..Len(u)
          BY <2>6
        <5>2. SubSeq(u, Len(u) + 1, Len(u)) = <<>>
          BY <2>6, <5>1, PartIs
        <5> QED
          BY <5>2, NoBytes
      <4>8. SseEvent(E.partial, <<>>).result = "none" /\ SseEvent(E.partial, <<>>).partial = E.partial
        BY <4>2, NothingInIt
      <4>9. WholeText(u) = SaidBy(SseEvent(E.partial, <<>>))
        <5>1. u \in Seq(Byte) /\ E.partial \in Seq(Byte) /\ <<>> \in Seq(Byte)
          BY <2>6, <4>2, NoBytes
        <5> QED
          BY ONLY <5>1, <4>6, <4>7, WholeIs, Zenon
      <4>10. WholeText(u) = [result |-> "unfinished", partial |-> E.partial]
        BY <4>8, <4>9 DEF Stops, SaidBy
      <4> QED
        BY <1>2, <2>4, <3>5, <4>10 DEF SaidBy
    <3> QED
      BY <3>4, <3>5
  <2> QED
    BY <2>7, <2>8
<1> QED
  BY <1>5, <1>6 DEF AllButCr

\* What is read stays read when bytes come behind it.
LEMMA ReadOn ==
    ASSUME NEW w \in Seq(Byte), NEW s, NEW l, NEW a, NEW p, HasRead(w, s, l, a, p), NEW v \in Seq(Byte),
           Len(w) <= Len(v), \A k \in 1..Len(w) : v[k] = w[k]
    PROVE  HasRead(v, s, l, a, p)
<1>1. s \in 0..a /\ l \in s..a /\ a \in 0..Len(w) /\ Len(w) \in Nat /\ Len(v) \in Nat
  BY ReadIs
<1>2. Upto(v, a) = Upto(w, a) /\ Upto(v, s) = Upto(w, s)
  <2>1. a \in Nat /\ s \in Nat /\ 1 \in Nat /\ 1 >= 1 /\ a <= Len(w) /\ a <= Len(v) /\ s <= Len(w) /\ s <= Len(v)
    BY <1>1
  <2>2. (\A k \in 1..a : v[k] = w[k]) /\ (\A k \in 1..s : v[k] = w[k])
    BY <1>1
  <2>3. SubSeq(v, 1, a) = SubSeq(w, 1, a)
    BY <2>1, <2>2, SamePart
  <2>4. SubSeq(v, 1, s) = SubSeq(w, 1, s)
    BY <2>1, <2>2, SamePart
  <2> QED
    BY <2>3, <2>4 DEF Upto
<1>3. SubSeq(v, s + 1, a) = SubSeq(w, s + 1, a)
  <2>1. a \in Nat /\ s + 1 \in Nat /\ s + 1 >= 1 /\ a <= Len(w) /\ a <= Len(v)
    BY <1>1
  <2>2. \A k \in (s + 1)..a : v[k] = w[k]
    BY <1>1
  <2> QED
    BY <2>1, <2>2, SamePart
<1>4. \A k \in 0..Len(w) : Between(w, k) => Between(v, k)
  <2> SUFFICES ASSUME NEW k \in 0..Len(w), Between(w, k), k # 0, v[k] = CR PROVE k < Len(v) /\ v[k + 1] # LF
    BY DEF Between
  <2>1. k \in 1..Len(w) /\ w[k] = CR
    BY <1>1
  <2>2. k < Len(w) /\ w[k + 1] # LF
    BY <2>1 DEF Between
  <2>3. k + 1 \in 1..Len(w) /\ k < Len(v)
    BY <1>1, <2>1, <2>2
  <2> QED
    BY <2>2, <2>3
<1>5. s \in 0..Len(w) /\ l \in 0..Len(w)
  BY <1>1
<1>6. Between(v, s) /\ Between(v, a)
  BY <1>1, <1>4, <1>5 DEF HasRead
<1>7. (s # 0 => v[s] \in LineBreaks) /\ (l # s => v[l] \in LineBreaks)
  <2>1. (s # 0 => s \in 1..Len(w)) /\ (l # s => l \in 1..Len(w))
    BY <1>1
  <2> QED
    BY <2>1 DEF HasRead
<1>8. \A k \in (l + 1)..a : v[k] \notin LineBreaks
  <2>1. \A k \in (l + 1)..a : k \in 1..Len(w)
    BY <1>1
  <2> QED
    BY <2>1 DEF HasRead
<1>9. s \in 0..a /\ l \in s..a /\ a \in 0..Len(v)
  BY <1>1
<1>10. Normalised(Upto(v, a)) = Normalised(Upto(v, s)) \o Normalised(SubSeq(v, s + 1, a))
  BY <1>2, <1>3 DEF HasRead
<1>11. SaysSoFar(Normalised(Upto(v, a)), Len(Normalised(Upto(v, s))), p)
  BY <1>2 DEF HasRead
<1> QED
  BY <1>6, <1>7, <1>8, <1>9, <1>10, <1>11 DEF HasRead

\* The bytes behind the first o of w.
LEMMA BehindIs ==
    ASSUME NEW w \in Seq(Byte), NEW o \in 0..Len(w), NEW b, b = SubSeq(w, o + 1, Len(w))
    PROVE  b \in Seq(Byte) /\ Len(b) = Len(w) - o /\ \A i \in 1..(Len(w) - o) : b[i] = w[o + i]
<1> DEFINE m == Len(w)
<1>1. o \in Nat /\ m \in o..Len(w) /\ b = SubSeq(w, o + 1, m)
  OBVIOUS
<1> HIDE DEF m
<1>2. b \in Seq(Byte) /\ Len(b) = m - o /\ \A i \in 1..(m - o) : b[i] = w[o + i]
  BY <1>1, PartIs
<1> QED
  BY <1>2 DEF m

\* A part of a part is a part.
LEMMA PartOfPart ==
    ASSUME NEW w \in Seq(Byte), NEW o \in 0..Len(w), NEW b, b = SubSeq(w, o + 1, Len(w)),
           NEW c \in o..Len(w), NEW d \in c..Len(w)
    PROVE  SubSeq(b, (c - o) + 1, d - o) = SubSeq(w, c + 1, d)
<1> DEFINE s == c - o
           k == d - o
<1>1. /\ Len(w) \in Nat /\ o \in Nat /\ c \in Nat /\ d \in Nat /\ o <= c /\ c <= d /\ d <= Len(w)
      /\ s \in Nat /\ k \in s..(Len(w) - o) /\ k - s = d - c /\ o + s = c /\ k \in Nat
  OBVIOUS
<1> HIDE DEF s, k
<1>2. b \in Seq(Byte) /\ Len(b) = Len(w) - o /\ \A i \in 1..(Len(w) - o) : b[i] = w[o + i]
  BY BehindIs
<1>3. k \in s..Len(b)
  BY <1>1, <1>2
<1> DEFINE x == SubSeq(b, s + 1, k)
           y == SubSeq(w, c + 1, d)
<1>4. x \in Seq(Byte) /\ Len(x) = k - s /\ \A i \in 1..(k - s) : x[i] = b[s + i]
  BY <1>1, <1>2, <1>3, PartIs
<1>5. y \in Seq(Byte) /\ Len(y) = d - c /\ \A i \in 1..(d - c) : y[i] = w[c + i]
  BY <1>1, PartIs
<1>6. \A i \in 1..(k - s) : b[s + i] = w[c + i]
  <2> TAKE i \in 1..(k - s)
  <2>1. s + i \in 1..(Len(w) - o) /\ o + (s + i) = c + i
    BY <1>1
  <2> QED
    BY <1>2, <2>1
<1> HIDE DEF x, y
<1>7. ASSUME NEW i \in 1..(k - s) PROVE x[i] = y[i]
  <2>1. i \in 1..(d - c)
    BY <1>1
  <2>2. x[i] = b[s + i] /\ b[s + i] = w[c + i]
    BY <1>4, <1>6
  <2>3. y[i] = w[c + i]
    BY <1>5, <2>1
  <2> QED
    BY <2>2, <2>3
<1>8. Len(x) = Len(y)
  BY ONLY <1>1, <1>4, <1>5
<1>9. \A i \in 1..Len(x) : x[i] = y[i]
  BY <1>4, <1>7
<1>10. x = y
  BY <1>4, <1>5, <1>8, <1>9, SeqEqual
<1> QED
  BY <1>10 DEF x, y, s, k

\* The bytes behind the first o of w are handed in and the turns of the first k of them are over.
Following(w, o, st, k) ==
    LET read == HasRead(w, o + st.start, o + st.parser.lineStart, o + st.parser.scan, st.parser.partial)
    IN  /\ st \in [parser : Parsers, start : Nat, over : BOOLEAN]
        /\ ~st.over => read /\ st.parser.scan >= k /\ st.parser.result \notin Stops
        /\ st.over /\ st.parser.result \notin Stops => read /\ o + st.parser.scan = Len(w) - 1 /\ w[Len(w)] = CR
        /\ st.over /\ st.parser.result \in Stops =>
             WholeBody(w) = [result |-> st.parser.result, partial |-> st.parser.partial]

\* Each turn of the loop reads on.
LEMMA TurnKeeps ==
    ASSUME NEW w \in Seq(Byte), NEW o \in 0..Len(w), NEW b, b = SubSeq(w, o + 1, Len(w)),
           NEW k \in 1..(Len(w) - o), NEW st, Following(w, o, st, k - 1)
    PROVE  Following(w, o, Turn(b, st, k), k)
<1> DEFINE next == IF b[k] = CR /\ k < Len(b) /\ b[k + 1] = LF THEN k + 1 ELSE k
           event == SseEvent(st.parser.partial, SubSeq(b, st.start + 1, st.parser.lineStart))
           ended == [st EXCEPT !.parser.scan = next, !.parser.lineStart = next]
           s == o + st.start
           l == o + st.parser.lineStart
           p == st.parser.partial
           a == o + st.parser.scan
           new == Turn(b, st, k)
<1>0. SUFFICES Following(w, o, new, k)
  OBVIOUS
<1>1. /\ st \in [parser : Parsers, start : Nat, over : BOOLEAN]
      /\ st.parser \in Parsers /\ st.start \in Nat /\ st.over \in BOOLEAN
  BY DEF Following
<1>2. /\ st.parser.scan \in Nat /\ st.parser.lineStart \in Nat /\ p \in Seq(Byte)
      /\ st.parser.result \in {"none", "delta", "final", "error"} /\ st.parser.changed \in BOOLEAN
  BY <1>1 DEF Parsers
<1>3. Len(w) \in Nat /\ o \in Nat /\ k \in Nat /\ k <= Len(w) - o
  OBVIOUS
<1>4. CASE st.over
  <2>1. new = st
    BY <1>4 DEF Turn
  <2> QED
    BY <1>4, <2>1 DEF Following
<1>5. CASE ~st.over /\ k <= st.parser.scan
  <2>1. new = st
    BY <1>5 DEF Turn
  <2> QED
    BY <1>5, <2>1 DEF Following
<1>6. CASE ~st.over /\ ~(k <= st.parser.scan)
  <2>1. HasRead(w, s, l, a, p) /\ st.parser.scan >= k - 1 /\ st.parser.result \notin Stops
    BY <1>6 DEF Following
  <2>2. st.parser.scan = k - 1 /\ a + 1 = o + k /\ a < Len(w) /\ a \in Nat /\ s \in Nat /\ l \in Nat
    <3>1. st.parser.scan = k - 1 /\ st.start \in Nat /\ st.parser.lineStart \in Nat
      <4>1. st.parser.scan \in Nat /\ k \in Nat /\ st.parser.scan >= k - 1 /\ ~(k <= st.parser.scan)
        BY <1>2, <1>3, <1>6, <2>1
      <4> QED
        BY <1>1, <1>2, <4>1
    <3>2. a = o + (k - 1)
      BY <3>1
    <3>3. st.start \in Nat /\ st.parser.lineStart \in Nat /\ o \in Nat /\ k \in Nat /\ k - 1 \in Nat
      BY <1>3, <3>1
    <3>4. s \in Nat /\ l \in Nat
      BY ONLY <3>3
    <3> HIDE DEF a, s, l
    <3>5. a + 1 = o + k /\ a \in Nat
      BY ONLY <3>2, <3>3
    <3>6. a < Len(w)
      BY <1>3, <3>5
    <3> QED
      BY <3>1, <3>4, <3>5, <3>6
  <2>3. s \in 0..a /\ l \in s..a
    BY <2>1, ReadIs
  <2>4. /\ b \in Seq(Byte) /\ Len(b) = Len(w) - o /\ \A i \in 1..(Len(w) - o) : b[i] = w[o + i]
        /\ SubSeq(b, st.start + 1, st.parser.lineStart) = SubSeq(w, s + 1, l)
    <3>1. b \in Seq(Byte) /\ Len(b) = Len(w) - o /\ \A i \in 1..(Len(w) - o) : b[i] = w[o + i]
      BY BehindIs
    <3>2. st.start = s - o /\ st.parser.lineStart = l - o
      BY <1>1, <1>2, <1>3
    <3>3. o <= s
      BY <1>1, <1>3
    <3> HIDE DEF s, l, a
    <3>4. s \in o..Len(w) /\ l \in s..Len(w)
      BY <1>3, <2>2, <2>3, <3>3
    <3>5. SubSeq(b, (s - o) + 1, l - o) = SubSeq(w, s + 1, l)
      BY <3>4, PartOfPart
    <3>6. SubSeq(b, st.start + 1, st.parser.lineStart) = SubSeq(w, s + 1, l)
      BY ONLY <3>2, <3>5, Zenon
    <3> QED
      BY <3>1, <3>6
  <2>5. b[k] = w[a + 1] /\ (k < Len(b) <=> a + 1 < Len(w)) /\ (k = Len(b) <=> a + 1 = Len(w))
    <3> HIDE DEF a
    <3>1. b[k] = w[o + k]
      BY <1>3, <2>4
    <3>2. o \in Nat /\ k \in Nat /\ a \in Nat /\ Len(w) \in Nat /\ a + 1 = o + k /\ Len(b) = Len(w) - o
      BY <1>3, <2>2, <2>4
    <3>3. (k < Len(b) <=> a + 1 < Len(w)) /\ (k = Len(b) <=> a + 1 = Len(w))
      BY ONLY <3>2
    <3>4. b[k] = w[a + 1]
      BY ONLY <3>1, <3>2
    <3> QED
      BY <3>3, <3>4
  <2>6. k < Len(b) => b[k + 1] = w[a + 2]
    <3> SUFFICES ASSUME k < Len(b) PROVE b[k + 1] = w[a + 2]
      OBVIOUS
    <3>1. k + 1 \in 1..(Len(w) - o) /\ o + (k + 1) = a + 2
      BY <1>3, <2>2, <2>4
    <3> QED
      BY <2>4, <3>1
  <2>7. next \in Nat /\ next >= k /\ o + next = BreakEnd(w, a)
    BY <1>3, <2>2, <2>5, <2>6 DEF BreakEnd
  <2> HIDE DEF event, next, a, s, l, p
  <2>8. CASE b[k] \notin LineBreaks
    <3>1. HasRead(w, s, l, a + 1, p)
      BY <2>1, <2>2, <2>5, <2>8, ReadsOther
    <3>2. new = [st EXCEPT !.parser.scan = k]
      BY <1>6, <2>8 DEF Turn
    <3>3. /\ new \in [parser : Parsers, start : Nat, over : BOOLEAN]
          /\ new.over = FALSE /\ new.start = st.start /\ new.parser.scan = k
          /\ new.parser.lineStart = st.parser.lineStart
          /\ new.parser.partial = st.parser.partial /\ new.parser.result = st.parser.result
      <4> DEFINE q == [st.parser EXCEPT !.scan = k]
      <4>1. q \in Parsers
        BY <1>1, <1>3 DEF Parsers
      <4>2. /\ q.scan = k /\ q.lineStart = st.parser.lineStart
            /\ q.partial = st.parser.partial /\ q.result = st.parser.result
        BY <1>1, <1>3 DEF Parsers
      <4>3. new = [st EXCEPT !.parser = q]
        BY <1>1, <3>2
      <4> HIDE DEF q, new
      <4> QED
        BY <1>1, <1>6, <4>1, <4>2, <4>3
    <3> HIDE DEF new
    <3>4. o + new.start = s /\ o + new.parser.lineStart = l /\ o + new.parser.scan = a + 1 /\ new.parser.partial = p
      BY <2>2, <3>3 DEF s, l, p
    <3>5. HasRead(w, o + new.start, o + new.parser.lineStart, o + new.parser.scan, new.parser.partial)
      BY ONLY <3>1, <3>4
    <3> QED
      BY <1>3, <2>1, <3>3, <3>5 DEF Following
  <2>9. CASE b[k] \in LineBreaks /\ WaitsForLf(b, k)
    <3>1. w[Len(w)] = CR /\ a + 1 = Len(w)
      BY <2>5, <2>9 DEF WaitsForLf
    <3>2. new = [st EXCEPT !.over = TRUE]
      BY <1>6, <2>9 DEF Turn
    <3>3. /\ new \in [parser : Parsers, start : Nat, over : BOOLEAN]
          /\ new.over = TRUE /\ new.start = st.start /\ new.parser = st.parser
      BY <1>1, <3>2
    <3> HIDE DEF new
    <3> QED
      <4>1. HasRead(w, o + new.start, o + new.parser.lineStart, o + new.parser.scan, new.parser.partial)
        BY <2>1, <3>3 DEF s, l, p, a
      <4>2. o + new.parser.scan = Len(w) - 1 /\ new.parser.result \notin Stops
        <5>1. o + new.parser.scan = a /\ new.parser.result \notin Stops
          BY <2>1, <3>3 DEF a
        <5>2. a = Len(w) - 1
          BY <1>3, <2>2, <3>1
        <5> QED
          BY ONLY <5>1, <5>2
      <4> QED
        BY <3>1, <3>3, <4>1, <4>2 DEF Following
  <2>10. CASE b[k] \in LineBreaks /\ ~WaitsForLf(b, k)
    <3>1. w[a + 1] \in LineBreaks /\ ~(w[a + 1] = CR /\ a + 1 = Len(w))
      BY <2>5, <2>10 DEF WaitsForLf
    <3>2. CASE l # a
      <4>1. HasRead(w, s, BreakEnd(w, a), BreakEnd(w, a), p)
        BY <2>1, <2>2, <3>1, <3>2, ReadsLine
      <4>2. k - 1 # st.parser.lineStart
        BY <2>2, <3>2 DEF l, a
      <4>3. new = ended
        BY <1>6, <2>10, <4>2 DEF Turn, next
      <4>4. /\ new \in [parser : Parsers, start : Nat, over : BOOLEAN]
            /\ new.over = FALSE /\ new.start = st.start /\ new.parser.scan = next /\ new.parser.lineStart = next
            /\ new.parser.partial = st.parser.partial /\ new.parser.result = st.parser.result
        <5> DEFINE q == [st.parser EXCEPT !.scan = next, !.lineStart = next]
        <5>1. q \in Parsers
          BY <1>1, <2>7 DEF Parsers
        <5>2. /\ q.scan = next /\ q.lineStart = next
              /\ q.partial = st.parser.partial /\ q.result = st.parser.result
          BY <1>1, <2>7 DEF Parsers
        <5>3. new = [st EXCEPT !.parser = q]
          BY <1>1, <4>3
        <5> HIDE DEF q, new
        <5> QED
          BY <1>1, <1>6, <5>1, <5>2, <5>3
      <4> HIDE DEF new
      <4>5. o + new.start = s /\ o + new.parser.lineStart = BreakEnd(w, a) /\ o + new.parser.scan = BreakEnd(w, a)
            /\ new.parser.partial = p
        BY <2>7, <4>4 DEF s, p
      <4>6. HasRead(w, o + new.start, o + new.parser.lineStart, o + new.parser.scan, new.parser.partial)
        BY ONLY <4>1, <4>5
      <4> QED
        BY <2>1, <2>7, <4>4, <4>6 DEF Following
    <3>3. CASE l = a
      <4> DEFINE e == SseEvent(p, SubSeq(w, s + 1, a))
      <4>1. event = e
        BY <2>4, <3>3 DEF event, p
      <4>2. e.result \in {"none", "delta", "final", "error"} /\ e.partial \in Seq(Byte)
        <5>1. p \in Seq(Byte) /\ SubSeq(w, s + 1, a) \in Seq(Byte)
          BY <1>2, <2>1, ReadIs
        <5> QED
          <6> DEFINE r == SubSeq(w, s + 1, a)
          <6> HIDE DEF r
          <6>1. p \in Seq(Byte) /\ r \in Seq(Byte)
            BY <5>1 DEF r
          <6>2. SseEvent(p, r).result \in {"none", "delta", "final", "error"} /\ SseEvent(p, r).partial \in Seq(Byte)
            BY ONLY <6>1, EventIs
          <6> QED
            BY <6>2 DEF r
      <4>3. k - 1 = st.parser.lineStart
        <5>1. st.parser.scan = k - 1 /\ st.parser.lineStart \in Nat /\ o \in Nat /\ k \in Nat
          BY <1>2, <1>3, <2>2
        <5>2. o + st.parser.lineStart = o + st.parser.scan
          BY <3>3 DEF l, a
        <5> QED
          BY ONLY <5>1, <5>2
      <4>4. new = [ended EXCEPT !.start = next, !.parser = AfterEvent(@, event),
                                !.over = event.result \in {"final", "error"}]
        BY <1>6, <2>10, <4>3 DEF Turn, next, event
      <4> HIDE DEF e
      <4>5. /\ new \in [parser : Parsers, start : Nat, over : BOOLEAN]
            /\ new.over = (e.result \in {"final", "error"}) /\ new.start = next
            /\ new.parser.scan = next /\ new.parser.lineStart = next
            /\ new.parser.partial = e.partial /\ new.parser.result = e.result
        <5> DEFINE f == [st.parser EXCEPT !.scan = next, !.lineStart = next]
                   q == AfterEvent(f, e)
        <5>1. f \in Parsers /\ f.scan = next /\ f.lineStart = next
          BY <1>1, <2>7 DEF Parsers
        <5>2. ended = [st EXCEPT !.parser = f]
          BY <1>1
        <5> HIDE DEF f
        <5>3. q = [f EXCEPT !.partial = e.partial, !.result = e.result, !.changed = f.changed \/ e.partial # f.partial]
          BY <5>1 DEF AfterEvent, Parsers
        <5>4. q \in Parsers
          BY <4>2, <5>1, <5>3 DEF Parsers
        <5>5. q.scan = next /\ q.lineStart = next /\ q.partial = e.partial /\ q.result = e.result
          BY <5>1, <5>3 DEF Parsers
        <5>6. new = [st EXCEPT !.parser = q, !.start = next, !.over = e.result \in {"final", "error"}]
          BY <1>1, <4>1, <4>4, <5>2
        <5> HIDE DEF q, new
        <5> QED
          <6> DEFINE over == e.result \in {"final", "error"}
          <6>1. over \in BOOLEAN
            OBVIOUS
          <6>2. new = [st EXCEPT !.parser = q, !.start = next, !.over = over]
            BY <5>6
          <6> HIDE DEF over
          <6>3. new \in [parser : Parsers, start : Nat, over : BOOLEAN]
            BY <1>1, <2>7, <5>4, <6>1, <6>2
          <6>4. new.parser = q /\ new.start = next /\ new.over = over
            BY <1>1, <6>2
          <6> QED
            BY <5>5, <6>3, <6>4 DEF over
      <4> HIDE DEF new
      <4>6. CASE e.result \notin Stops
        <5>1. HasRead(w, BreakEnd(w, a), BreakEnd(w, a), BreakEnd(w, a), e.partial)
          BY <2>1, <2>2, <3>1, <3>3, <4>6, ReadsEvent DEF e
        <5>2. o + new.start = BreakEnd(w, a) /\ o + new.parser.lineStart = BreakEnd(w, a)
              /\ o + new.parser.scan = BreakEnd(w, a) /\ new.parser.partial = e.partial
          BY <2>7, <4>5
        <5>3. HasRead(w, o + new.start, o + new.parser.lineStart, o + new.parser.scan, new.parser.partial)
          BY ONLY <5>1, <5>2
        <5> QED
          BY <2>7, <4>5, <4>6, <5>3 DEF Following, Stops
      <4>7. CASE e.result \in Stops
        <5>1. WholeBody(w) = [result |-> e.result, partial |-> e.partial]
          BY <2>1, <2>2, <3>1, <3>3, <4>7, ReadsLast DEF e
        <5> QED
          BY <4>5, <4>7, <5>1 DEF Following, Stops
      <4> QED
        BY <4>6, <4>7
    <3> QED
      BY <3>2, <3>3
  <2> QED
    BY <2>8, <2>9, <2>10
<1> QED
  BY <1>1, <1>4, <1>5, <1>6

\* g is what the turns make over the subsets of the positions of b, the highest position last: the
\* recursion of FoldLeft.
TurnsOver(g, h, b, q, P) ==
    g = [T \in P |-> IF T = {} THEN h ELSE Turn(b, g[T \ {Max(T)}], q[Max(T)])]

\* There is such a function, by induction on the size of the subsets.
LEMMA TurnsExist ==
    ASSUME NEW n \in Nat, NEW h, NEW b, NEW q PROVE \E g : TurnsOver(g, h, b, q, SUBSET (1..n))
<1> DEFINE S == 1..n
           P(k) == {T \in SUBSET S : Cardinality(T) <= k}
           Bad == {k \in Nat : ~\E g : TurnsOver(g, h, b, q, P(k))}
<1>a. IsFiniteSet(S)
  BY FS_Interval
<1>0. \A T \in SUBSET S : IsFiniteSet(T) /\ Cardinality(T) \in Nat /\ Cardinality(T) <= Cardinality(S)
  BY <1>a, FS_Subset, FS_CardinalityType
<1>1. SUFFICES Bad = {}
  <2>1. P(Cardinality(S)) = SUBSET S /\ Cardinality(S) \in Nat
    BY <1>0
  <2> QED
    BY <1>1, <2>1
<1>2. SUFFICES ASSUME Bad # {} PROVE FALSE
  OBVIOUS
<1>3. PICK m \in Bad : \A j \in Bad : m <= j
  BY <1>2, LeastNumber
<1>4. PICK g : m > 0 => TurnsOver(g, h, b, q, P(m - 1))
  <2>1. m \in Nat /\ (m > 0 => m - 1 \in Nat /\ ~(m <= m - 1))
    BY <1>3
  <2>2. m > 0 => m - 1 \notin Bad
    BY <1>3, <2>1
  <2> QED
    BY <2>1, <2>2
<1> DEFINE f == [T \in P(m) |-> IF T = {} THEN h ELSE Turn(b, g[T \ {Max(T)}], q[Max(T)])]
<1>5. ASSUME NEW T \in P(m), T # {} PROVE g[T \ {Max(T)}] = f[T \ {Max(T)}]
  <2> DEFINE U == T \ {Max(T)}
  <2>1. Max(T) \in T
    BY <1>5, HighestIsIn
  <2>2. U \in SUBSET S /\ Cardinality(U) = Cardinality(T) - 1 /\ Cardinality(U) \in Nat /\ Cardinality(T) <= m
    BY <1>0, <2>1, FS_RemoveElement
  <2>3. m > 0 /\ U \in P(m - 1) /\ U \in P(m) /\ m \in Nat
    BY <1>0, <1>3, <2>2
  <2> HIDE DEF U
  <2>4. g[U] = IF U = {} THEN h ELSE Turn(b, g[U \ {Max(U)}], q[Max(U)])
    BY <1>4, <2>3 DEF TurnsOver
  <2> QED
    BY <2>3, <2>4 DEF U
<1>6. f = [T \in P(m) |-> IF T = {} THEN h ELSE Turn(b, f[T \ {Max(T)}], q[Max(T)])]
  <2>1. \A T \in P(m) : (IF T = {} THEN h ELSE Turn(b, g[T \ {Max(T)}], q[Max(T)]))
                         = IF T = {} THEN h ELSE Turn(b, f[T \ {Max(T)}], q[Max(T)])
    BY <1>5
  <2> QED
    BY <2>1
<1> HIDE DEF f
<1>7. TurnsOver(f, h, b, q, P(m))
  BY <1>6 DEF TurnsOver
<1> QED
  BY <1>3, <1>7

\* What the loop of push makes of the bytes b.
Looped(b, h) == FoldLeft(LAMBDA st, k : Turn(b, st, k), h, [k \in 1..Len(b) |-> k])

\* The states r that the turns for the first n bytes of b go through.
LoopStates(r, b, h, n) == r[0] = h /\ r[n] = Looped(b, h) /\ \A k \in 1..n : r[k] = Turn(b, r[k - 1], k)

\* There are such states: the last of them is what FoldLeft makes.
LEMMA TurnsRun ==
    ASSUME NEW b \in Seq(Byte), NEW h, NEW m, m = Len(b)
    PROVE  \E r : LoopStates(r, b, h, m)
<1> DEFINE n == Len(b)
           q == [k \in 1..Len(b) |-> k]
           g == CHOOSE g : TurnsOver(g, h, b, q, SUBSET DOMAIN q)
<1>0. DOMAIN q = 1..n /\ n \in Nat /\ \A k \in 1..n : q[k] = k
  OBVIOUS
<1>1. TurnsOver(g, h, b, q, SUBSET (1..n))
  <2>1. \E f : TurnsOver(f, h, b, q, SUBSET (1..n))
    <3> HIDE DEF q, n
    <3> QED
      BY <1>0, TurnsExist
  <2>2. \E f : TurnsOver(f, h, b, q, SUBSET DOMAIN q)
    BY <1>0, <2>1
  <2>3. TurnsOver(g, h, b, q, SUBSET DOMAIN q)
    BY <2>2
  <2> QED
    BY <1>0, <2>3
<1>2. Looped(b, h) = g[1..n]
  <2>1. Looped(b, h) = g[DOMAIN q]
    BY ONLY DEF Looped, FoldLeft, MapThenFoldSet, TurnsOver
  <2> QED
    BY <1>0, <2>1
<1> HIDE DEF g, q, n
<1> DEFINE r == [k \in 0..n |-> g[1..k]]
<1>3. r[0] = h
  <2>1. 1..0 = {} /\ {} \in SUBSET (1..n)
    OBVIOUS
  <2>2. g[{}] = h
    BY <1>1 DEF TurnsOver
  <2> QED
    BY <1>0, <2>1, <2>2
<1>4. ASSUME NEW k \in 1..n PROVE r[k] = Turn(b, r[k - 1], k)
  <2>0. n \in Nat /\ k \in 1..n
    BY <1>0
  <2>1. (1..k) \in SUBSET (1..n) /\ k \in 1..k /\ k - 1 \in 0..n /\ k \in 0..n
    BY ONLY <2>0
  <2>2. Max(1..k) \in 1..k /\ \A j \in 1..k : j <= Max(1..k)
    BY <1>0, <2>1, HighestIsIn
  <2>3. Max(1..k) = k
    BY <2>2
  <2>4. (1..k) \ {k} = 1..(k - 1) /\ q[k] = k
    BY <1>0
  <2>5. g[1..k] = Turn(b, g[1..(k - 1)], k)
    BY <1>1, <2>1, <2>3, <2>4 DEF TurnsOver
  <2> QED
    BY <2>1, <2>5
<1>5. r[n] = g[1..n]
  BY <1>0
<1> HIDE DEF r
<1> QED
  BY <1>2, <1>3, <1>4, <1>5 DEF n, LoopStates

\* When the loop is over everything is read.
LEMMA LoopKeeps ==
    ASSUME NEW w \in Seq(Byte), NEW o \in 0..Len(w), NEW b, b = SubSeq(w, o + 1, Len(w)),
           NEW h, Following(w, o, h, 0)
    PROVE  Following(w, o, Looped(b, h), Len(w) - o) /\ b \in Seq(Byte) /\ Len(b) = Len(w) - o
<1> DEFINE n == Len(w) - o
<1>1. b \in Seq(Byte) /\ Len(b) = n /\ n \in Nat
  <2>1. o \in Nat /\ Len(w) \in o..Len(w) /\ n \in Nat
    OBVIOUS
  <2> DEFINE m == Len(w)
  <2>2. o \in Nat /\ m \in o..Len(w) /\ b = SubSeq(w, o + 1, m)
    BY <2>1
  <2> HIDE DEF m
  <2>3. b \in Seq(Byte) /\ Len(b) = m - o
    BY <2>2, PartIs
  <2>4. b \in Seq(Byte) /\ Len(b) = Len(w) - o
    BY ONLY <2>3 DEF m
  <2>5. n \in Nat
    BY <2>1
  <2> QED
    BY ONLY <2>4, <2>5, Zenon
<1>2. PICK r : r[0] = h /\ r[n] = Looped(b, h) /\ \A k \in 1..n : r[k] = Turn(b, r[k - 1], k)
  <2>1. PICK r : LoopStates(r, b, h, n)
    BY <1>1, TurnsRun
  <2> QED
    BY <2>1 DEF LoopStates
<1> DEFINE Bad == {k \in 0..n : ~Following(w, o, r[k], k)}
<1>3. SUFFICES Bad = {}
  <2>1. n \in 0..n
    BY <1>1
  <2> QED
    BY <1>1, <1>2, <1>3, <2>1
<1>4. SUFFICES ASSUME Bad # {} PROVE FALSE
  OBVIOUS
<1>5. Bad \in SUBSET Nat
  BY <1>1
<1>6. PICK k \in Bad : \A j \in Bad : k <= j
  BY <1>4, <1>5, LeastNumber
<1>7. k \in 0..n /\ k # 0
  BY <1>2, <1>6
<1>8. k \in 1..n /\ k - 1 \in 0..n /\ ~(k <= k - 1)
  BY <1>1, <1>7
<1>9. Following(w, o, r[k - 1], k - 1)
  BY <1>6, <1>8
<1>10. Following(w, o, Turn(b, r[k - 1], k), k)
  BY <1>8, <1>9, TurnKeeps
<1> QED
  BY <1>2, <1>6, <1>8, <1>10

\* The bytes that push looks at are those behind the ones that were handed out.
LEMMA PendingBytes ==
    ASSUME NEW v \in Seq(Byte), NEW c \in Seq(Byte), NEW o \in 0..Len(v)
    PROVE  /\ v \o c \in Seq(Byte) /\ Len(v \o c) = Len(v) + Len(c) /\ o \in 0..Len(v \o c)
           /\ SubSeq(v, o + 1, Len(v)) \o c = SubSeq(v \o c, o + 1, Len(v \o c))
           /\ \A k \in 1..Len(v) : (v \o c)[k] = v[k]
<1> DEFINE w == v \o c
           a == SubSeq(v, o + 1, Len(v))
           b == SubSeq(w, o + 1, Len(w))
           d == a \o c
<1>1. /\ w \in Seq(Byte) /\ Len(w) = Len(v) + Len(c) /\ Len(v) \in Nat /\ Len(c) \in Nat
      /\ \A k \in 1..(Len(v) + Len(c)) : w[k] = IF k <= Len(v) THEN v[k] ELSE c[k - Len(v)]
  BY ConcatProperties
<1> HIDE DEF w
<1>2. o \in Nat /\ Len(v) \in o..Len(v) /\ Len(w) \in o..Len(w)
  BY <1>1
<1>3. a \in Seq(Byte) /\ Len(a) = Len(v) - o /\ \A i \in 1..(Len(v) - o) : a[i] = v[o + i]
  <2> DEFINE m == Len(v)
  <2>1. m \in o..Len(v) /\ a = SubSeq(v, o + 1, m)
    BY <1>2
  <2> HIDE DEF m, a
  <2>2. a \in Seq(Byte) /\ Len(a) = m - o /\ \A i \in 1..(m - o) : a[i] = v[o + i]
    BY <1>2, <2>1, PartIs
  <2> QED
    BY <2>2 DEF m
<1>4. b \in Seq(Byte) /\ Len(b) = Len(w) - o /\ \A i \in 1..(Len(w) - o) : b[i] = w[o + i]
  <2> DEFINE m == Len(w)
  <2>1. m \in o..Len(w) /\ b = SubSeq(w, o + 1, m)
    BY <1>2
  <2> HIDE DEF m, b
  <2>2. b \in Seq(Byte) /\ Len(b) = m - o /\ \A i \in 1..(m - o) : b[i] = w[o + i]
    BY <1>1, <1>2, <2>1, PartIs
  <2> QED
    BY <2>2 DEF m
<1> HIDE DEF a, b
<1>5. /\ d \in Seq(Byte) /\ Len(d) = Len(a) + Len(c)
      /\ \A k \in 1..(Len(a) + Len(c)) : d[k] = IF k <= Len(a) THEN a[k] ELSE c[k - Len(a)]
  BY <1>3, ConcatProperties
<1> HIDE DEF d
<1>6. Len(d) = Len(w) - o /\ Len(b) = Len(d)
  BY <1>1, <1>2, <1>3, <1>4, <1>5
<1>7. ASSUME NEW i \in 1..Len(d) PROVE d[i] = b[i]
  <2>0. i \in 1..(Len(w) - o) /\ i \in Nat /\ i >= 1 /\ i <= Len(v) + Len(c) - o
    BY <1>1, <1>2, <1>6
  <2>1. b[i] = w[o + i] /\ o + i \in 1..(Len(v) + Len(c)) /\ i \in 1..(Len(a) + Len(c))
    BY <1>1, <1>2, <1>3, <1>4, <2>0
  <2>2. CASE i <= Len(a)
    <3>1. d[i] = a[i] /\ i \in 1..(Len(v) - o) /\ o + i <= Len(v)
      BY <1>1, <1>2, <1>3, <1>5, <2>0, <2>1, <2>2
    <3> QED
      BY <1>1, <1>3, <2>1, <3>1
  <2>3. CASE ~(i <= Len(a))
    <3>1. d[i] = c[i - Len(a)] /\ ~(o + i <= Len(v)) /\ i - Len(a) = o + i - Len(v)
      BY <1>1, <1>2, <1>3, <1>5, <2>0, <2>1, <2>3
    <3> QED
      BY <1>1, <2>1, <3>1
  <2> QED
    BY <2>2, <2>3
<1>8. d = b
  BY <1>4, <1>5, <1>6, <1>7, SeqEqual
<1>9. \A k \in 1..Len(v) : w[k] = v[k]
  BY <1>1
<1>10. o \in 0..Len(w)
  BY <1>1, <1>2
<1> QED
  BY <1>1, <1>8, <1>9, <1>10 DEF w, a, b, d

\* The loop of push begins with what is held.
LEMMA LoopBegins ==
    ASSUME NEW v \in Seq(Byte), NEW c \in Seq(Byte), NEW from \in Parsers, Held(v, from),
           NEW o, o = Len(v) - Len(from.pending),
           NEW h, h = [parser |-> [from EXCEPT !.result = "none", !.changed = FALSE], start |-> 0, over |-> FALSE]
    PROVE  /\ v \o c \in Seq(Byte) /\ Len(v \o c) \in Nat /\ o \in 0..Len(v \o c)
           /\ from.pending \o c = SubSeq(v \o c, o + 1, Len(v \o c))
           /\ Following(v \o c, o, h, 0)
<1>1. /\ o \in Nat /\ from.pending = SubSeq(v, o + 1, Len(v))
      /\ HasRead(v, o, o + from.lineStart, o + from.scan, from.partial)
  BY DEF Held
<1>2. from.pending \in Seq(Byte) /\ from.scan \in Nat /\ from.lineStart \in Nat /\ from.partial \in Seq(Byte)
  BY DEF Parsers
<1>3. o \in 0..Len(v) /\ Len(v) \in Nat /\ Len(from.pending) \in Nat
  BY <1>1, <1>2
<1> DEFINE w == v \o c
<1>4. /\ w \in Seq(Byte) /\ Len(w) = Len(v) + Len(c) /\ o \in 0..Len(w) /\ Len(c) \in Nat
      /\ from.pending \o c = SubSeq(w, o + 1, Len(w)) /\ \A k \in 1..Len(v) : w[k] = v[k]
  <2>1. SubSeq(v, o + 1, Len(v)) \o c = SubSeq(w, o + 1, Len(w))
    BY <1>3, PendingBytes
  <2>2. from.pending \o c = SubSeq(w, o + 1, Len(w))
    BY ONLY <1>1, <2>1
  <2> QED
    BY <1>3, <2>2, PendingBytes
<1> HIDE DEF w
<1>5. Len(w) \in Nat /\ Len(v) <= Len(w)
  BY <1>3, <1>4
<1>6. HasRead(w, o, o + from.lineStart, o + from.scan, from.partial)
  <2> DEFINE l == o + from.lineStart
             a == o + from.scan
  <2>1. HasRead(v, o, l, a, from.partial)
    BY <1>1
  <2> HIDE DEF l, a
  <2>2. HasRead(w, o, l, a, from.partial)
    BY <1>4, <1>5, <2>1, ReadOn
  <2> QED
    BY <2>2 DEF l, a
<1> DEFINE f == [from EXCEPT !.result = "none", !.changed = FALSE]
<1>7. /\ f \in Parsers /\ f.scan = from.scan /\ f.lineStart = from.lineStart /\ f.partial = from.partial
      /\ f.result = "none"
  BY DEF Parsers
<1>8. h.parser = f /\ h.start = 0 /\ h.over = FALSE /\ h = [parser |-> f, start |-> 0, over |-> FALSE]
  OBVIOUS
<1> HIDE DEF f
<1>9. h \in [parser : Parsers, start : Nat, over : BOOLEAN]
  BY <1>7, <1>8
<1>10. o + h.start = o /\ o + h.parser.lineStart = o + from.lineStart /\ o + h.parser.scan = o + from.scan
       /\ h.parser.partial = from.partial
  BY <1>1, <1>7, <1>8
<1>11. HasRead(w, o + h.start, o + h.parser.lineStart, o + h.parser.scan, h.parser.partial)
  BY ONLY <1>6, <1>10
<1>12. h.parser.scan >= 0 /\ h.parser.result \notin Stops
  BY <1>2, <1>7, <1>8 DEF Stops
<1>13. Following(w, o, h, 0)
  BY <1>8, <1>9, <1>11, <1>12 DEF Following
<1> QED
  BY <1>4, <1>5, <1>13 DEF w

\* push holds what it needs to go on, or has made of the response what it says.
LEMMA PushHolds ==
    ASSUME NEW v \in Seq(Byte), NEW c \in Seq(Byte), NEW from \in Parsers, Held(v, from),
           NEW p, p = Push(from, c)
    PROVE  /\ p \in Parsers
           /\ p.result \notin Stops => Held(v \o c, p)
           /\ p.result \in Stops => [result |-> p.result, partial |-> p.partial] = WholeBody(v \o c)
<1> DEFINE o == Len(v) - Len(from.pending)
           b == from.pending \o c
           h == [parser |-> [from EXCEPT !.result = "none", !.changed = FALSE], start |-> 0, over |-> FALSE]
           end == Looped(b, h)
           w == v \o c
           left == SubSeq(b, end.start + 1, Len(b))
           e == end.parser
           kept == [e EXCEPT !.pending = left, !.scan = @ - end.start, !.lineStart = @ - end.start]
<1>1. w \in Seq(Byte) /\ Len(w) \in Nat /\ o \in 0..Len(w) /\ b = SubSeq(w, o + 1, Len(w)) /\ Following(w, o, h, 0)
  BY LoopBegins
<1>2. Push(from, c) =
         IF e.result \in Stops
         THEN [e EXCEPT !.pending = <<>>, !.scan = 0, !.lineStart = 0]
         ELSE [kept EXCEPT !.result = IF UnfinishedUtf8(left) THEN "none" ELSE "error"]
  BY ONLY DEF Push, Looped, Stops
<1> HIDE DEF o, b, h, w
<1>3. Following(w, o, end, Len(w) - o) /\ b \in Seq(Byte) /\ Len(b) = Len(w) - o
  BY <1>1, LoopKeeps
<1> HIDE DEF end, left, kept
<1>4. end \in [parser : Parsers, start : Nat, over : BOOLEAN] /\ e \in Parsers /\ end.start \in Nat /\ end.over \in BOOLEAN
  BY <1>3 DEF Following
<1>5. /\ e.scan \in Nat /\ e.lineStart \in Nat /\ e.partial \in Seq(Byte)
      /\ e.result \in {"none", "delta", "final", "error"} /\ e.changed \in BOOLEAN
  BY <1>4 DEF Parsers
<1> HIDE DEF e
<1>6. CASE e.result \in Stops
  <2>1. p = [e EXCEPT !.pending = <<>>, !.scan = 0, !.lineStart = 0]
    BY <1>2, <1>6
  <2>2. p \in Parsers /\ p.result = e.result /\ p.partial = e.partial
    <3> DEFINE none == <<>>
    <3>1. none \in Seq(Byte)
      BY NoBytes
    <3>2. p = [e EXCEPT !.pending = none, !.scan = 0, !.lineStart = 0]
      BY <2>1
    <3> HIDE DEF none
    <3> QED
      BY ONLY <1>5, <1>4, <3>1, <3>2 DEF Parsers
  <2>3. end.over
    BY <1>3, <1>6 DEF Following, e
  <2>4. WholeBody(w) = [result |-> e.result, partial |-> e.partial]
    BY <1>3, <1>6, <2>3 DEF Following, e
  <2> QED
    BY <1>6, <2>2, <2>4 DEF w
<1>7. CASE e.result \notin Stops
  <2> DEFINE s == o + end.start
             l == o + e.lineStart
             a == o + e.scan
             res == IF UnfinishedUtf8(left) THEN "none" ELSE "error"
  <2>1. HasRead(w, s, l, a, e.partial)
    BY <1>3, <1>4, <1>7 DEF Following, e
  <2>2. s \in 0..a /\ l \in s..a /\ a \in 0..Len(w)
    <3> HIDE DEF s, l, a
    <3> QED
      BY <1>1, <2>1, ReadIs
  <2>3. AllButCr(w, a)
    <3>1. CASE end.over
      <4>1. o + e.scan = Len(w) - 1 /\ w[Len(w)] = CR
        BY <1>3, <1>7, <3>1 DEF Following, e
      <4> QED
        BY <4>1 DEF AllButCr
    <3>2. CASE ~end.over
      <4>1. e.scan >= Len(w) - o
        BY <1>3, <3>2 DEF Following, e
      <4>2. a = Len(w)
        BY <1>1, <1>5, <2>2, <4>1
      <4> HIDE DEF a
      <4> QED
        BY <4>2 DEF AllButCr
    <3> QED
      BY <3>1, <3>2
  <2>4. left = SubSeq(w, s + 1, Len(w)) /\ left \in Seq(Byte) /\ Len(left) = Len(w) - s
    <3> DEFINE m == Len(w)
               i == end.start
               j == Len(w) - o
    <3>1. s - o = i /\ m - o = j /\ s \in o..Len(w) /\ m \in s..Len(w) /\ s \in Nat
      BY <1>1, <1>4, <2>2
    <3>2. left = SubSeq(b, i + 1, j)
      BY <1>3 DEF left
    <3> HIDE DEF m, i, j, s
    <3>3. SubSeq(b, i + 1, j) = SubSeq(w, s + 1, m)
      <4>1. SubSeq(b, (s - o) + 1, m - o) = SubSeq(w, s + 1, m)
        BY <1>1, <3>1, PartOfPart
      <4> QED
        BY ONLY <3>1, <4>1, Zenon
    <3>4. SubSeq(w, s + 1, m) \in Seq(Byte) /\ Len(SubSeq(w, s + 1, m)) = m - s
      BY <1>1, <3>1, PartIs
    <3>5. left = SubSeq(w, s + 1, m) /\ left \in Seq(Byte) /\ Len(left) = m - s
      BY ONLY <3>2, <3>3, <3>4
    <3> QED
      BY ONLY <3>5 DEF m
  <2>5. p = [kept EXCEPT !.result = res]
    BY <1>2, <1>7
  <2> DEFINE sc == e.scan - end.start
             ls == e.lineStart - end.start
  <2>6. sc \in Nat /\ ls \in Nat
    <3>1. o \in Nat /\ end.start \in Nat /\ e.scan \in Nat /\ e.lineStart \in Nat
      BY <1>1, <1>4, <1>5
    <3>2. o + end.start <= o + e.scan /\ o + end.start <= o + e.lineStart
      <4>1. s <= a /\ s <= l
        <5> HIDE DEF s, l, a
        <5>1. a \in Nat /\ s \in Nat /\ l \in Nat
          BY <1>1, <2>2
        <5> QED
          BY <2>2, <5>1
      <4> QED
        BY <4>1
    <3>3. end.start <= e.scan /\ end.start <= e.lineStart
      BY ONLY <3>1, <3>2
    <3> QED
      BY ONLY <3>1, <3>3
  <2>7. res \in {"none", "error"}
    OBVIOUS
  <2>8. s + sc = a /\ s + ls = l /\ Len(w) - Len(left) = s /\ s \in Nat
    <3>1. o \in Nat /\ end.start \in Nat /\ e.scan \in Nat /\ e.lineStart \in Nat /\ Len(w) \in Nat
      BY <1>1, <1>4, <1>5
    <3>2. Len(left) = Len(w) - s
      BY <2>4
    <3>3. s + sc = a /\ s + ls = l /\ s \in Nat
      BY ONLY <3>1
    <3> HIDE DEF s
    <3> QED
      BY ONLY <3>1, <3>2, <3>3
  <2>9. p = [e EXCEPT !.pending = left, !.scan = sc, !.lineStart = ls, !.result = res]
    <3>1. kept = [e EXCEPT !.pending = left, !.scan = sc, !.lineStart = ls]
      BY <1>4 DEF Parsers, kept
    <3> QED
      BY <2>5, <3>1
  <2> HIDE DEF sc, ls, s, l, a
  <2>10. /\ p \in Parsers /\ p.pending = left /\ p.scan = sc /\ p.lineStart = ls /\ p.result = res
         /\ p.partial = e.partial
    <3> HIDE DEF res
    <3> QED
      <4>1. left \in Seq(Byte) /\ e \in Parsers
        BY <1>4, <2>4
      <4> QED
        BY ONLY <2>6, <2>7, <2>9, <4>1 DEF Parsers
  <2>11. CASE UnfinishedUtf8(left)
    <3>1. p.result = "none"
      BY <2>10, <2>11
    <3>2. Len(w) - Len(p.pending) = s /\ p.pending = SubSeq(w, s + 1, Len(w)) /\ UnfinishedUtf8(p.pending)
      BY <2>4, <2>8, <2>10, <2>11
    <3>3. HasRead(w, s, s + p.lineStart, s + p.scan, p.partial) /\ AllButCr(w, s + p.scan)
      BY <2>1, <2>3, <2>8, <2>10
    <3>4. Held(w, p)
      BY <2>8, <3>2, <3>3 DEF Held
    <3> QED
      BY <2>10, <3>1, <3>4 DEF Stops, w
  <2>12. CASE ~UnfinishedUtf8(left)
    <3> DEFINE E == SseEvent(e.partial, left)
    <3>1. p.result = "error"
      BY <2>10, <2>12
    <3>2. WholeBody(w) = SaidBy(E)
      <4>1. E = SseEvent(e.partial, SubSeq(w, s + 1, Len(w)))
        BY <2>4
      <4> HIDE DEF E
      <4> QED
        BY <1>1, <2>1, <2>3, <4>1, ReadsAll
    <3>3. E.result = "error" /\ E.partial = e.partial
      BY <1>5, <2>4, <2>12, EventIs
    <3>4. WholeBody(w) = [result |-> "error", partial |-> e.partial]
      BY <3>2, <3>3 DEF SaidBy, Stops
    <3> QED
      BY <2>10, <3>1, <3>4 DEF Stops, w
  <2> QED
    BY <2>11, <2>12
<1> QED
  BY <1>6, <1>7

\* What the parser has made of the response when it has read a chunk, or the end.
Outcome(p, open) ==
    [result |-> IF p.result \in Stops THEN p.result ELSE open,
     partial |-> IF p.result \in Stops \/ open # "none" THEN p.partial ELSE <<>>]

\* finish makes of what is pending the last event.
LEMMA FinishIs ==
    ASSUME NEW from \in Parsers, NEW p, p = Finish(from), NEW E, E = SseEvent(from.partial, from.pending)
    PROVE  p \in Parsers /\ Outcome(p, "unfinished") = SaidBy(E) /\ Outcome(p, "unfinished") # Unparsed
<1> DEFINE none == <<>>
           fresh == [from EXCEPT !.pending = none, !.scan = 0, !.lineStart = 0, !.result = "none", !.changed = FALSE]
<1>1. none \in Seq(Byte) /\ from.pending \in Seq(Byte) /\ from.partial \in Seq(Byte)
  BY NoBytes DEF Parsers
<1>2. p = IF from.pending = <<>> THEN fresh ELSE AfterEvent(fresh, E)
  BY DEF Finish
<1>3. E.result \in {"none", "delta", "final", "error"} /\ E.partial \in Seq(Byte)
  <2> DEFINE b == from.pending
             t == from.partial
  <2>1. b \in Seq(Byte) /\ t \in Seq(Byte) /\ E = SseEvent(t, b)
    BY <1>1
  <2> HIDE DEF b, t
  <2> QED
    BY <2>1, EventIs
<1> HIDE DEF none
<1>4. /\ fresh \in Parsers /\ fresh.partial = from.partial /\ fresh.result = "none" /\ fresh.changed = FALSE
  BY <1>1 DEF Parsers
<1> HIDE DEF fresh
<1>5. p \in Parsers /\ p.result = E.result /\ p.partial = E.partial
  <2>1. CASE from.pending = <<>>
    <3>1. E.result = "none" /\ E.partial = from.partial
      BY <1>1, <2>1, NothingInIt
    <3> QED
      BY <1>2, <1>4, <2>1, <3>1
  <2>2. CASE from.pending # <<>>
    <3> DEFINE ch == fresh.changed \/ E.partial # fresh.partial
    <3>1. p = [fresh EXCEPT !.partial = E.partial, !.result = E.result, !.changed = ch]
      BY <1>2, <1>4, <2>2 DEF AfterEvent, Parsers
    <3>2. ch \in BOOLEAN
      BY <1>4
    <3> HIDE DEF ch
    <3> QED
      BY ONLY <1>3, <1>4, <3>1, <3>2 DEF Parsers
  <2> QED
    BY <2>1, <2>2
<1>6. Outcome(p, "unfinished") = SaidBy(E)
  BY <1>5 DEF Outcome, SaidBy
<1>7. SaidBy(E).result # "none"
  BY DEF SaidBy, Stops
<1> QED
  BY <1>5, <1>6, <1>7 DEF Unparsed

\* In the beginning nothing is read.
LEMMA SseBegins == SseInit => SseInv
<1> SUFFICES ASSUME SseInit PROVE SseInv
  OBVIOUS
<1> DEFINE none == <<>>
<1>1. body = none /\ none \in Seq(Byte) /\ parsed = Unparsed /\ Len(none) = 0
  BY NoBytes DEF SseInit
<1>2. parser = [pending |-> none, scan |-> 0, lineStart |-> 0, partial |-> none, result |-> "none", changed |-> FALSE]
  BY DEF SseInit, NewParser
<1>3. Upto(none, 0) = none /\ SubSeq(none, 1, 0) = none /\ Normalised(none) = none /\ UnfinishedUtf8(none)
  BY NoBytes, AllOf DEF Upto
<1>4. SaysSoFar(none, 0, none)
  BY NothingSaid
<1>5. none \o none = none
  BY <1>1, ConcatEmptySeq
<1> HIDE DEF none
<1>6. parser \in Parsers /\ parser.pending = none /\ parser.scan = 0 /\ parser.lineStart = 0 /\ parser.partial = none
  BY <1>1, <1>2 DEF Parsers
<1>7. HasRead(none, 0, 0, 0, none)
  <2>1. Between(none, 0)
    BY DEF Between
  <2>2. SubSeq(none, 0 + 1, 0) = none
    BY <1>3
  <2>3. Normalised(Upto(none, 0)) = Normalised(Upto(none, 0)) \o Normalised(SubSeq(none, 0 + 1, 0))
    BY <1>3, <1>5, <2>2
  <2>4. SaysSoFar(Normalised(Upto(none, 0)), Len(Normalised(Upto(none, 0))), none)
    BY <1>1, <1>3, <1>4
  <2> QED
    BY <1>1, <2>1, <2>3, <2>4 DEF HasRead
<1>8. Held(none, parser)
  <2>1. Len(none) - Len(parser.pending) = 0 /\ 0 + parser.lineStart = 0 /\ 0 + parser.scan = 0
    <3>1. Len(parser.pending) = 0 /\ Len(none) = 0
      BY <1>1, <1>6
    <3> QED
      BY ONLY <3>1, <1>6
  <2>2. parser.pending = SubSeq(none, 0 + 1, Len(none)) /\ UnfinishedUtf8(parser.pending)
    BY <1>1, <1>3, <1>6
  <2>3. AllButCr(none, 0)
    BY <1>1 DEF AllButCr
  <2> QED
    BY <1>6, <1>7, <2>1, <2>2, <2>3 DEF Held
<1>9. body \in Seq(Byte) /\ Held(body, parser)
  BY <1>1, <1>8
<1> QED
  BY <1>1, <1>6, <1>9 DEF SseInv, ParserInv, SseAsWhole

\* A chunk that is read.
LEMMA ChunkHolds ==
    ASSUME SseInv, NEW chunk \in Seq(Byte), ReadsChunk(chunk)
    PROVE  SseInv'
<1> DEFINE p == Push(parser, chunk)
           w == body \o chunk
<1>1. body \in Seq(Byte) /\ parser \in Parsers /\ Held(body, parser)
  BY DEF SseInv, ParserInv, ReadsChunk
<1>2. /\ p \in Parsers /\ (p.result \notin Stops => Held(w, p))
      /\ p.result \in Stops => [result |-> p.result, partial |-> p.partial] = WholeBody(w)
  BY <1>1, PushHolds
<1>3. w \in Seq(Byte)
  BY <1>1, BehindConcat
<1>4. body' = w /\ parser' = p /\ parsed' = Outcome(p, "none")
  BY DEF ReadsChunk, Parses, Outcome, Stops
<1> HIDE DEF p, w
<1>5. CASE p.result \in Stops
  <2>1. Outcome(p, "none") = [result |-> p.result, partial |-> p.partial]
    BY <1>5 DEF Outcome
  <2>2. Outcome(p, "none").result # "none"
    BY <1>5, <2>1 DEF Stops
  <2>3. Outcome(p, "none") # Unparsed
    BY <2>2 DEF Unparsed
  <2>4. parsed' = WholeBody(body') /\ parsed' # Unparsed
    BY <1>2, <1>4, <1>5, <2>1, <2>3
  <2> QED
    BY <1>2, <1>3, <1>4, <2>4 DEF SseInv, ParserInv, SseAsWhole
<1>6. CASE p.result \notin Stops
  <2>1. Outcome(p, "none") = Unparsed
    BY <1>6 DEF Outcome, Unparsed
  <2>2. Held(body', parser')
    BY <1>2, <1>4, <1>6
  <2> QED
    BY <1>2, <1>3, <1>4, <2>1, <2>2 DEF SseInv, ParserInv, SseAsWhole
<1> QED
  BY <1>5, <1>6

\* The end of the body.
LEMMA EndHolds ==
    ASSUME SseInv, ReadsEnd
    PROVE  SseInv'
<1> DEFINE p == Finish(parser)
           E == SseEvent(parser.partial, parser.pending)
           s == Len(body) - Len(parser.pending)
           l == s + parser.lineStart
           a == s + parser.scan
<1>1. body \in Seq(Byte) /\ parser \in Parsers /\ Held(body, parser)
  BY DEF SseInv, ParserInv, ReadsEnd
<1>2. p \in Parsers /\ Outcome(p, "unfinished") = SaidBy(E) /\ Outcome(p, "unfinished") # Unparsed
  BY <1>1, FinishIs
<1>3. body' = body /\ parser' = p /\ parsed' = Outcome(p, "unfinished")
  BY DEF ReadsEnd, Parses, Outcome, Stops
<1>4. HasRead(body, s, l, a, parser.partial) /\ AllButCr(body, a) /\ parser.pending = SubSeq(body, s + 1, Len(body))
  BY <1>1 DEF Held
<1> HIDE DEF s, l, a, p
<1>5. E = SseEvent(parser.partial, SubSeq(body, s + 1, Len(body)))
  BY <1>4
<1> HIDE DEF E
<1>6. WholeBody(body) = SaidBy(E)
  BY <1>1, <1>4, <1>5, ReadsAll
<1>7. parsed' = WholeBody(body') /\ parsed' # Unparsed
  BY <1>2, <1>3, <1>6
<1> QED
  BY <1>1, <1>2, <1>3, <1>7 DEF SseInv, ParserInv, SseAsWhole

\* The parser always holds the bytes that it still needs.
THEOREM ParserHolds == SseSpec => []SseInv
<1>1. SseInit => SseInv
  BY SseBegins
<1>2. SseInv /\ [SseNext]_sseVars => SseInv'
  <2> SUFFICES ASSUME SseInv, [SseNext]_sseVars PROVE SseInv'
    OBVIOUS
  <2>1. CASE ReadsEnd
    BY <2>1, EndHolds
  <2>2. ASSUME NEW n \in 1..MaxChunk, NEW chunk \in [1..n -> Byte], ReadsChunk(chunk) PROVE SseInv'
    <3>1. MaxChunk \in Nat
      BY SseAssumption
    <3>2. n \in Nat
      BY <3>1
    <3>3. chunk \in Seq(Byte)
      BY <3>2
    <3> QED
      BY <2>2, <3>3, ChunkHolds
  <2>3. CASE UNCHANGED sseVars
    BY <2>3 DEF SseInv, ParserInv, SseAsWhole, sseVars
  <2> QED
    BY <2>1, <2>2, <2>3 DEF SseNext
<1> QED
  BY <1>1, <1>2, PTL DEF SseSpec

\* However the bytes of a response are split into chunks, what the parser has made of them when the
\* response is over is what the whole response says.
THEOREM ResponsesAreReadAsWhole == SseSpec => []SseAsWhole
<1>1. SseInv => SseAsWhole
  BY DEF SseInv
<1> QED
  BY <1>1, ParserHolds, PTL
================================================================================
