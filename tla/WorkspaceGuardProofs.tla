------------------------- MODULE WorkspaceGuardProofs -------------------------
(* Proofs about WorkspaceGuard, for any set of processes, any number of ticket *)
(* names and attempts, any clock, and with or without readable start tokens.   *)
EXTENDS WorkspaceGuard, TLAPS

USE DEF Queued

(* Two calls never count the same visible ticket as their own. *)
LEMMA OwnUnique ==
  ASSUME OwnTicket, NoTicketOwned, NEW p \in Proc, NEW q \in Proc,
         my[p] = my[q], my[p] \in visible
  PROVE  p = q
  BY NobodyAssumption DEF OwnTicket, NoTicketOwned, visible

(* Init establishes the invariant. *)
LEMMA InitIInv == Init => IInv
<1> SUFFICES ASSUME Init PROVE IInv
  OBVIOUS
<1> USE NobodyAssumption, AttemptsAssumption, BoundsAssumption, AbsentAssumption
<1>1. Junk \in Ticket
  BY DEF Junk, Ticket
<1>2. PICK junk \in Leftover : dir = [i \in Id |-> IF i \in junk THEN Junk ELSE Absent]
  BY DEF Init
<1>3. TypeOK
  BY <1>1, <1>2 DEF Init, TypeOK, PC
<1>4. \A i \in visible : dir[i] = Junk
  BY <1>2 DEF visible
<1>5. OwnTicket /\ NoTicketOwned /\ MineRead /\ LiveTicketKept
  BY DEF Init, OwnTicket, NoTicketOwned, MineRead, LiveTicketKept
<1>6. NotFromFuture /\ NoTicketLeaked
  BY <1>4 DEF Init, NotFromFuture, NoTicketLeaked, Junk
<1>7. QueueOrder
  BY DEF Init, QueueOrder, Past
<1>8. AttemptsLeft
  BY DEF Init, AttemptsLeft
<1> QED BY <1>3, <1>5, <1>6, <1>7, <1>8 DEF IInv
-----------------------------------------------------------------------------
(* What a step does to the directory. *)

Directory == [Id -> Ticket \cup {Absent}]

(* No ticket appears, and the ones that stay keep owner, start token and ctime. *)
SameTickets ==
  /\ dir' \in Directory
  /\ visible' \subseteq visible
  /\ \A j \in visible' : /\ dir'[j].owner = dir[j].owner
                         /\ dir'[j].start = dir[j].start
                         /\ dir'[j].seq = dir[j].seq

(* Unlinking a name removes that ticket, if it is one, and no other. *)
LEMMA UnlinkEffect ==
  ASSUME TypeOK, NEW x, dir' = [dir EXCEPT ![x] = Absent]
  PROVE  SameTickets /\ visible' = visible \ {x}
<1>1. dir' \in Directory /\ \A j \in Id : dir'[j] = IF j = x THEN Absent ELSE dir[j]
  BY DEF TypeOK, Directory
<1>2. visible' = visible \ {x}
  BY <1>1 DEF visible
<1>3. \A j \in visible' : dir'[j] = dir[j]
  BY <1>1, <1>2 DEF visible
<1> QED BY <1>1, <1>2, <1>3 DEF SameTickets

(* Publishing adds one ticket, under a name nothing refers to. *)
LEMMA PublishEffect ==
  ASSUME TypeOK, NEW p \in Proc, NEW i \in Fresh(p), Publish(p, i)
  PROVE  /\ dir' \in Directory
         /\ i \in Id
         /\ visible' = visible \cup {i}
         /\ \A j \in visible : j # i /\ dir'[j] = dir[j]
         /\ dir'[i] = [owner |-> p, start |-> start[p], seq |-> clock, old |-> FALSE]
         /\ \A q \in Proc : (q # p => my[q] # i) /\ i \notin todo[q]
         /\ my' = [my EXCEPT ![p] = i]
<1>1. i \in Id /\ i \notin visible /\ \A q \in Proc : (q # p => my[q] # i) /\ i \notin todo[q]
  BY DEF Fresh, InUse
<1>2. [owner |-> p, start |-> start[p], seq |-> clock, old |-> FALSE] \in Ticket
  BY DEF TypeOK, Ticket
<1>3. /\ dir' \in Directory
      /\ \A j \in Id : dir'[j] =
           IF j = i
             THEN [owner |-> p, start |-> start[p], seq |-> clock, old |-> FALSE]
             ELSE dir[j]
  BY <1>1, <1>2 DEF TypeOK, Directory, Publish
<1>4. visible' = visible \cup {i}
  BY <1>1, <1>2, <1>3, AbsentAssumption DEF visible
<1>5. \A j \in visible : j # i /\ dir'[j] = dir[j]
  BY <1>1, <1>3 DEF visible
<1> QED BY <1>1, <1>3, <1>4, <1>5 DEF Publish

(* A ticket that ages keeps all but its age. *)
LEMMA AgeEffect ==
  ASSUME TypeOK, NEW i \in Id, Age(i)
  PROVE  SameTickets /\ visible' = visible
<1>1. dir[i] \in Ticket
  BY DEF Age, TypeOK, visible
<1> DEFINE aged == [owner |-> dir[i].owner, start |-> dir[i].start,
                    seq |-> dir[i].seq, old |-> TRUE]
<1>2. aged \in Ticket
  BY <1>1 DEF Ticket
<1>3. dir' \in Directory /\ \A j \in Id : dir'[j] = IF j = i THEN aged ELSE dir[j]
  BY <1>2 DEF Age, TypeOK, Directory
<1>4. visible' = visible
  BY <1>2, <1>3, AbsentAssumption DEF visible, Age
<1>5. \A j \in visible' : /\ dir'[j].owner = dir[j].owner
                          /\ dir'[j].start = dir[j].start
                          /\ dir'[j].seq = dir[j].seq
  BY <1>3, <1>4 DEF visible
<1> QED BY <1>3, <1>4, <1>5 DEF SameTickets

(* A directory that does not change. *)
LEMMA IdleEffect ==
  ASSUME TypeOK, UNCHANGED dir
  PROVE  SameTickets /\ visible' = visible
  BY DEF TypeOK, SameTickets, visible, Directory
(* A step that publishes a ticket. *)
Published == \E p \in Proc : \E i \in Fresh(p) : Publish(p, i)

(* A step publishes one ticket, or only keeps or unlinks tickets. *)
LEMMA TicketsStep ==
  ASSUME TypeOK, [Next]_vars
  PROVE  Published \/ SameTickets
<1> USE DEF Published
<1>1. ASSUME NEW p \in Proc, Take(p) PROVE Published \/ SameTickets
  BY <1>1 DEF Take
<1>2. ASSUME NEW p \in Proc, FindOwn(p) PROVE Published \/ SameTickets
  BY <1>2, IdleEffect DEF FindOwn
<1>3. ASSUME NEW p \in Proc, Requeue(p) PROVE Published \/ SameTickets
  BY <1>3 DEF Requeue
<1>4. ASSUME NEW p \in Proc, List(p) PROVE Published \/ SameTickets
  BY <1>4, IdleEffect DEF List
<1>5. ASSUME NEW p \in Proc, ListFails(p) PROVE Published \/ SameTickets
  BY <1>5, UnlinkEffect DEF ListFails, Drop
<1>6. ASSUME NEW p \in Proc, NEW i \in Id, ReadOther(p, i) PROVE Published \/ SameTickets
  BY <1>6, UnlinkEffect, IdleEffect DEF ReadOther, Digest
<1>7. ASSUME NEW p \in Proc, NEW i \in Id, MisreadOther(p, i) PROVE Published \/ SameTickets
  BY <1>7, UnlinkEffect, IdleEffect DEF MisreadOther, Digest
<1>8. ASSUME NEW p \in Proc, Enter(p) PROVE Published \/ SameTickets
  BY <1>8, IdleEffect DEF Enter
<1>9. ASSUME NEW p \in Proc, GiveUp(p) PROVE Published \/ SameTickets
  BY <1>9, UnlinkEffect DEF GiveUp, Drop
<1>10. ASSUME NEW p \in Proc, Withdraw(p) PROVE Published \/ SameTickets
  BY <1>10, UnlinkEffect DEF Withdraw, Drop
<1>11. ASSUME NEW p \in Proc, Rejoin(p) PROVE Published \/ SameTickets
  BY <1>11 DEF Rejoin
<1>12. ASSUME NEW p \in Proc, PublishFails(p) PROVE Published \/ SameTickets
  BY <1>12, IdleEffect DEF PublishFails
<1>13. ASSUME NEW p \in Proc, Retry(p) PROVE Published \/ SameTickets
  BY <1>13, IdleEffect DEF Retry
<1>14. ASSUME NEW p \in Proc, Quit(p) PROVE Published \/ SameTickets
  BY <1>14, UnlinkEffect DEF Quit, Drop
<1>15. ASSUME NEW p \in Proc, Release(p) PROVE Published \/ SameTickets
  BY <1>15, UnlinkEffect DEF Release, Drop
<1>16. ASSUME NEW p \in Proc, Crash(p) PROVE Published \/ SameTickets
  BY <1>16, IdleEffect DEF Crash
<1>17. ASSUME NEW p \in Proc, Respawn(p) PROVE Published \/ SameTickets
  BY <1>17, IdleEffect DEF Respawn
<1>18. CASE Tick
  BY <1>18, IdleEffect DEF Tick
<1>19. ASSUME NEW i \in Id, Age(i) PROVE Published \/ SameTickets
  BY <1>19, AgeEffect
<1>20. ASSUME NEW i \in Id, Lose(i) PROVE Published \/ SameTickets
  BY <1>20, UnlinkEffect DEF Lose
<1>21. CASE UNCHANGED vars
  BY <1>21, IdleEffect DEF vars
<1> QED
  BY <1>1, <1>2, <1>3, <1>4, <1>5, <1>6, <1>7, <1>8, <1>9, <1>10, <1>11, <1>12, <1>13,
       <1>14, <1>15, <1>16, <1>17, <1>18, <1>19, <1>20, <1>21 DEF Next, Call, Env

(* The directory only ever holds tickets. *)
LEMMA DirectoryStep ==
  ASSUME TypeOK, [Next]_vars
  PROVE  dir' \in Directory
  BY TicketsStep, PublishEffect DEF Published, SameTickets

(* The types of all variables but the directory. *)
LocalTypes ==
  /\ pc \in [Proc -> PC]
  /\ attempt \in [Proc -> 0..Attempts]
  /\ my \in [Proc -> Id \cup {Nobody}]
  /\ mine \in [Proc -> 0..MaxClock]
  /\ todo \in [Proc -> SUBSET Id]
  /\ blocked \in [Proc -> BOOLEAN]
  /\ tied \in [Proc -> BOOLEAN]
  /\ start \in [Proc -> 0..MaxStart]
  /\ clock \in 0..MaxClock
  /\ faults \in 0..MaxFaults

(* Every step keeps them. *)
LEMMA LocalTypeStep ==
  ASSUME TypeOK, AttemptsLeft, [Next]_vars
  PROVE  LocalTypes'
<1> USE NobodyAssumption, AttemptsAssumption, BoundsAssumption DEF LocalTypes, TypeOK,
      AttemptsLeft, PC, Ticket, vars, local, visible, NextAttempt, LastAttempt
<1>1. ASSUME NEW p \in Proc, Take(p) PROVE LocalTypes'
  <2>1. \A i \in Fresh(p) : Publish(p, i) => my' \in [Proc -> Id \cup {Nobody}]
    BY PublishEffect
  <2> QED BY <1>1, <2>1 DEF Take, Goto
<1>2. ASSUME NEW p \in Proc, FindOwn(p) PROVE LocalTypes'
  BY <1>2 DEF FindOwn, Goto
<1>3. ASSUME NEW p \in Proc, Requeue(p) PROVE LocalTypes'
  <2>1. \A i \in Fresh(p) : Publish(p, i) => my' \in [Proc -> Id \cup {Nobody}]
    BY PublishEffect
  <2> QED BY <1>3, <2>1 DEF Requeue, NextAttempt, Goto
<1>4. ASSUME NEW p \in Proc, List(p) PROVE LocalTypes'
  BY <1>4 DEF List, Goto
<1>5. ASSUME NEW p \in Proc, ListFails(p) PROVE LocalTypes'
  BY <1>5 DEF ListFails, Forget, EndScan, Goto
<1>6. ASSUME NEW p \in Proc, NEW i \in Id, ReadOther(p, i) PROVE LocalTypes'
  BY <1>6 DEF ReadOther, Digest, Goto
<1>7. ASSUME NEW p \in Proc, NEW i \in Id, MisreadOther(p, i) PROVE LocalTypes'
  BY <1>7 DEF MisreadOther, Digest, Goto
<1>8. ASSUME NEW p \in Proc, Enter(p) PROVE LocalTypes'
  BY <1>8 DEF Enter, Scanned, Goto
<1>9. ASSUME NEW p \in Proc, GiveUp(p) PROVE LocalTypes'
  BY <1>9 DEF GiveUp, Scanned, Forget, EndScan, Goto
<1>10. ASSUME NEW p \in Proc, Withdraw(p) PROVE LocalTypes'
  BY <1>10 DEF Withdraw, Scanned, EndScan, Goto
<1>11. ASSUME NEW p \in Proc, Rejoin(p) PROVE LocalTypes'
  <2>1. \A i \in Fresh(p) : Publish(p, i) => my' \in [Proc -> Id \cup {Nobody}]
    BY PublishEffect
  <2> QED BY <1>11, <2>1 DEF Rejoin, NextAttempt, Goto
<1>12. ASSUME NEW p \in Proc, PublishFails(p) PROVE LocalTypes'
  BY <1>12 DEF PublishFails, Forget, EndScan, Goto
<1>13. ASSUME NEW p \in Proc, Retry(p) PROVE LocalTypes'
  BY <1>13 DEF Retry, Scanned, EndScan, NextAttempt, Goto
<1>14. ASSUME NEW p \in Proc, Quit(p) PROVE LocalTypes'
  BY <1>14 DEF Quit, Forget, EndScan, Goto
<1>15. ASSUME NEW p \in Proc, Release(p) PROVE LocalTypes'
  BY <1>15 DEF Release, Forget, EndScan, Goto
<1>16. ASSUME NEW p \in Proc, Crash(p) PROVE LocalTypes'
  BY <1>16 DEF Crash, Forget, EndScan, Goto
<1>17. ASSUME NEW p \in Proc, Respawn(p) PROVE LocalTypes'
  BY <1>17 DEF Respawn, Goto
<1>18. CASE Tick
  BY <1>18 DEF Tick
<1>19. ASSUME NEW i \in Id, Age(i) PROVE LocalTypes'
  BY <1>19 DEF Age
<1>20. ASSUME NEW i \in Id, Lose(i) PROVE LocalTypes'
  BY <1>20 DEF Lose
<1>21. CASE UNCHANGED vars
  BY <1>21
<1> QED
  BY <1>1, <1>2, <1>3, <1>4, <1>5, <1>6, <1>7, <1>8, <1>9, <1>10, <1>11, <1>12, <1>13,
       <1>14, <1>15, <1>16, <1>17, <1>18, <1>19, <1>20, <1>21 DEF Next, Call, Env

(* So every step keeps all types. *)
LEMMA TypeStep ==
  ASSUME TypeOK, AttemptsLeft, [Next]_vars
  PROVE  TypeOK'
  BY LocalTypeStep, DirectoryStep DEF LocalTypes, TypeOK, Directory

(* The loop counter runs out only on the way to Quit. *)
LEMMA AttemptsStep ==
  ASSUME TypeOK, AttemptsLeft, [Next]_vars
  PROVE  AttemptsLeft'
<1> USE AttemptsAssumption DEF AttemptsLeft, TypeOK, NextAttempt, LastAttempt, vars, local
<1>1. ASSUME NEW p \in Proc, Take(p) PROVE AttemptsLeft'
  BY <1>1 DEF Take, Goto
<1>2. ASSUME NEW p \in Proc, FindOwn(p) PROVE AttemptsLeft'
  BY <1>2 DEF FindOwn, Goto
<1>3. ASSUME NEW p \in Proc, Requeue(p) PROVE AttemptsLeft'
  BY <1>3 DEF Requeue, NextAttempt, Goto
<1>4. ASSUME NEW p \in Proc, List(p) PROVE AttemptsLeft'
  BY <1>4 DEF List, Goto
<1>5. ASSUME NEW p \in Proc, ListFails(p) PROVE AttemptsLeft'
  BY <1>5 DEF ListFails, Forget, EndScan, Goto
<1>6. ASSUME NEW p \in Proc, NEW i \in Id, ReadOther(p, i) PROVE AttemptsLeft'
  BY <1>6 DEF ReadOther, Digest, Goto
<1>7. ASSUME NEW p \in Proc, NEW i \in Id, MisreadOther(p, i) PROVE AttemptsLeft'
  BY <1>7 DEF MisreadOther, Digest, Goto
<1>8. ASSUME NEW p \in Proc, Enter(p) PROVE AttemptsLeft'
  BY <1>8 DEF Enter, Scanned, Goto
<1>9. ASSUME NEW p \in Proc, GiveUp(p) PROVE AttemptsLeft'
  BY <1>9 DEF GiveUp, Scanned, Forget, EndScan, Goto
<1>10. ASSUME NEW p \in Proc, Withdraw(p) PROVE AttemptsLeft'
  BY <1>10 DEF Withdraw, Scanned, EndScan, Goto
<1>11. ASSUME NEW p \in Proc, Rejoin(p) PROVE AttemptsLeft'
  BY <1>11 DEF Rejoin, NextAttempt, Goto
<1>12. ASSUME NEW p \in Proc, PublishFails(p) PROVE AttemptsLeft'
  BY <1>12 DEF PublishFails, Forget, EndScan, Goto
<1>13. ASSUME NEW p \in Proc, Retry(p) PROVE AttemptsLeft'
  BY <1>13 DEF Retry, Scanned, EndScan, NextAttempt, Goto
<1>14. ASSUME NEW p \in Proc, Quit(p) PROVE AttemptsLeft'
  BY <1>14 DEF Quit, Forget, EndScan, Goto
<1>15. ASSUME NEW p \in Proc, Release(p) PROVE AttemptsLeft'
  BY <1>15 DEF Release, Forget, EndScan, Goto
<1>16. ASSUME NEW p \in Proc, Crash(p) PROVE AttemptsLeft'
  BY <1>16 DEF Crash, Forget, EndScan, Goto
<1>17. ASSUME NEW p \in Proc, Respawn(p) PROVE AttemptsLeft'
  BY <1>17 DEF Respawn, Goto
<1>18. CASE Tick
  BY <1>18 DEF Tick
<1>19. ASSUME NEW i \in Id, Age(i) PROVE AttemptsLeft'
  BY <1>19 DEF Age
<1>20. ASSUME NEW i \in Id, Lose(i) PROVE AttemptsLeft'
  BY <1>20 DEF Lose
<1>21. CASE UNCHANGED vars
  BY <1>21
<1> QED
  BY <1>1, <1>2, <1>3, <1>4, <1>5, <1>6, <1>7, <1>8, <1>9, <1>10, <1>11, <1>12, <1>13,
       <1>14, <1>15, <1>16, <1>17, <1>18, <1>19, <1>20, <1>21 DEF Next, Call, Env

(* Whatever is visible in the directory is a ticket. *)
LEMMA VisibleIsTicket == ASSUME TypeOK PROVE \A i \in visible : i \in Id /\ dir[i] \in Ticket
  BY DEF TypeOK, visible

(* A call's own ticket is its own. *)
LEMMA OwnTicketStep ==
  ASSUME IInv, [Next]_vars
  PROVE  OwnTicket'
<1> USE DEF IInv, TypeOK, OwnTicket
<1>1. ASSUME NEW p \in Proc, Take(p) PROVE OwnTicket'
  <2>1. PICK i \in Fresh(p) : Publish(p, i)
    BY <1>1 DEF Take
  <2>2. /\ dir' \in Directory
        /\ i \in Id
        /\ visible' = visible \cup {i}
        /\ \A j \in visible : j # i /\ dir'[j] = dir[j]
        /\ dir'[i] = [owner |-> p, start |-> start[p], seq |-> clock, old |-> FALSE]
        /\ \A q \in Proc : (q # p => my[q] # i) /\ i \notin todo[q]
        /\ my' = [my EXCEPT ![p] = i]
    BY <2>1, PublishEffect
  <2> QED BY <1>1, <2>2 DEF Take, Goto
<1>2. ASSUME NEW p \in Proc, FindOwn(p) PROVE OwnTicket'
  <2>1. SameTickets /\ visible' = visible
    BY <1>2, IdleEffect DEF FindOwn
  <2> QED BY <1>2, <2>1 DEF FindOwn, Goto, SameTickets, local
<1>3. ASSUME NEW p \in Proc, Requeue(p) PROVE OwnTicket'
  <2>1. PICK i \in Fresh(p) : Publish(p, i)
    BY <1>3 DEF Requeue
  <2>2. /\ dir' \in Directory
        /\ i \in Id
        /\ visible' = visible \cup {i}
        /\ \A j \in visible : j # i /\ dir'[j] = dir[j]
        /\ dir'[i] = [owner |-> p, start |-> start[p], seq |-> clock, old |-> FALSE]
        /\ \A q \in Proc : (q # p => my[q] # i) /\ i \notin todo[q]
        /\ my' = [my EXCEPT ![p] = i]
    BY <2>1, PublishEffect
  <2> QED BY <1>3, <2>2 DEF Requeue, Goto
<1>4. ASSUME NEW p \in Proc, List(p) PROVE OwnTicket'
  <2>1. SameTickets /\ visible' = visible
    BY <1>4, IdleEffect DEF List
  <2> QED BY <1>4, <2>1 DEF List, Goto, SameTickets, local
<1>5. ASSUME NEW p \in Proc, ListFails(p) PROVE OwnTicket'
  <2>1. SameTickets /\ visible' = visible \ {my[p]}
    BY <1>5, UnlinkEffect DEF ListFails, Drop
  <2> QED BY <1>5, <2>1 DEF ListFails, Forget, EndScan, Goto, SameTickets, local
<1>6. ASSUME NEW p \in Proc, NEW i \in Id, ReadOther(p, i) PROVE OwnTicket'
  <2>1. SameTickets /\ visible \ {i} \subseteq visible'
    BY <1>6, UnlinkEffect, IdleEffect DEF ReadOther, Digest
  <2> QED BY <1>6, <2>1 DEF ReadOther, Digest, Goto, SameTickets, local
<1>7. ASSUME NEW p \in Proc, NEW i \in Id, MisreadOther(p, i) PROVE OwnTicket'
  <2>1. SameTickets /\ visible \ {i} \subseteq visible'
    BY <1>7, UnlinkEffect, IdleEffect DEF MisreadOther, Digest
  <2> QED BY <1>7, <2>1 DEF MisreadOther, Digest, Goto, SameTickets, local
<1>8. ASSUME NEW p \in Proc, Enter(p) PROVE OwnTicket'
  <2>1. SameTickets /\ visible' = visible
    BY <1>8, IdleEffect DEF Enter
  <2> QED BY <1>8, <2>1 DEF Enter, Scanned, Goto, SameTickets, local
<1>9. ASSUME NEW p \in Proc, GiveUp(p) PROVE OwnTicket'
  <2>1. SameTickets /\ visible' = visible \ {my[p]}
    BY <1>9, UnlinkEffect DEF GiveUp, Drop
  <2> QED BY <1>9, <2>1 DEF GiveUp, Scanned, Forget, EndScan, Goto, SameTickets, local
<1>10. ASSUME NEW p \in Proc, Withdraw(p) PROVE OwnTicket'
  <2>1. SameTickets /\ visible' = visible \ {my[p]}
    BY <1>10, UnlinkEffect DEF Withdraw, Drop
  <2> QED BY <1>10, <2>1 DEF Withdraw, Scanned, EndScan, Goto, SameTickets, local
<1>11. ASSUME NEW p \in Proc, Rejoin(p) PROVE OwnTicket'
  <2>1. PICK i \in Fresh(p) : Publish(p, i)
    BY <1>11 DEF Rejoin
  <2>2. /\ dir' \in Directory
        /\ i \in Id
        /\ visible' = visible \cup {i}
        /\ \A j \in visible : j # i /\ dir'[j] = dir[j]
        /\ dir'[i] = [owner |-> p, start |-> start[p], seq |-> clock, old |-> FALSE]
        /\ \A q \in Proc : (q # p => my[q] # i) /\ i \notin todo[q]
        /\ my' = [my EXCEPT ![p] = i]
    BY <2>1, PublishEffect
  <2> QED BY <1>11, <2>2 DEF Rejoin, Goto
<1>12. ASSUME NEW p \in Proc, PublishFails(p) PROVE OwnTicket'
  <2>1. SameTickets /\ visible' = visible
    BY <1>12, IdleEffect DEF PublishFails
  <2> QED BY <1>12, <2>1 DEF PublishFails, Forget, EndScan, Goto, SameTickets, local
<1>13. ASSUME NEW p \in Proc, Retry(p) PROVE OwnTicket'
  <2>1. SameTickets /\ visible' = visible
    BY <1>13, IdleEffect DEF Retry
  <2> QED BY <1>13, <2>1 DEF Retry, Scanned, EndScan, NextAttempt, Goto, SameTickets, local
<1>14. ASSUME NEW p \in Proc, Quit(p) PROVE OwnTicket'
  <2>1. SameTickets /\ visible' = visible \ {my[p]}
    BY <1>14, UnlinkEffect DEF Quit, Drop
  <2> QED BY <1>14, <2>1 DEF Quit, Forget, EndScan, Goto, SameTickets, local
<1>15. ASSUME NEW p \in Proc, Release(p) PROVE OwnTicket'
  <2>1. SameTickets /\ visible' = visible \ {my[p]}
    BY <1>15, UnlinkEffect DEF Release, Drop
  <2> QED BY <1>15, <2>1 DEF Release, Forget, EndScan, Goto, SameTickets, local
<1>16. ASSUME NEW p \in Proc, Crash(p) PROVE OwnTicket'
  <2>1. SameTickets /\ visible' = visible
    BY <1>16, IdleEffect DEF Crash
  <2> QED BY <1>16, <2>1 DEF Crash, Forget, EndScan, Goto, SameTickets, local
<1>17. ASSUME NEW p \in Proc, Respawn(p) PROVE OwnTicket'
  <2>1. SameTickets /\ visible' = visible
    BY <1>17, IdleEffect DEF Respawn
  <2> QED BY <1>17, <2>1 DEF Respawn, Goto, SameTickets, local
<1>18. CASE Tick
  <2>1. SameTickets /\ visible' = visible
    BY <1>18, IdleEffect DEF Tick
  <2> QED BY <1>18, <2>1 DEF Tick, SameTickets, local
<1>19. ASSUME NEW i \in Id, Age(i) PROVE OwnTicket'
  <2>1. SameTickets /\ visible' = visible
    BY <1>19, AgeEffect
  <2> QED BY <1>19, <2>1 DEF Age, SameTickets, local
<1>20. ASSUME NEW i \in Id, Lose(i) PROVE OwnTicket'
  <2>1. SameTickets /\ visible' = visible \ {i}
    BY <1>20, UnlinkEffect DEF Lose
  <2> QED BY <1>20, <2>1 DEF Lose, SameTickets, local
<1>21. CASE UNCHANGED vars
  BY <1>21, IdleEffect DEF vars, local, SameTickets
<1> QED
  BY <1>1, <1>2, <1>3, <1>4, <1>5, <1>6, <1>7, <1>8, <1>9, <1>10, <1>11, <1>12, <1>13,
       <1>14, <1>15, <1>16, <1>17, <1>18, <1>19, <1>20, <1>21 DEF Next, Call, Env

(* Outside a call, and after a withdrawal, no ticket name is kept. *)
LEMMA NoTicketOwnedStep ==
  ASSUME IInv, [Next]_vars
  PROVE  NoTicketOwned'
<1> USE DEF IInv, TypeOK, NoTicketOwned
<1>1. ASSUME NEW p \in Proc, Take(p) PROVE NoTicketOwned'
  <2>1. PICK i \in Fresh(p) : Publish(p, i)
    BY <1>1 DEF Take
  <2>2. /\ dir' \in Directory
        /\ i \in Id
        /\ visible' = visible \cup {i}
        /\ \A j \in visible : j # i /\ dir'[j] = dir[j]
        /\ dir'[i] = [owner |-> p, start |-> start[p], seq |-> clock, old |-> FALSE]
        /\ \A q \in Proc : (q # p => my[q] # i) /\ i \notin todo[q]
        /\ my' = [my EXCEPT ![p] = i]
    BY <2>1, PublishEffect
  <2> QED BY <1>1, <2>2 DEF Take, Goto
<1>2. ASSUME NEW p \in Proc, FindOwn(p) PROVE NoTicketOwned'
  <2>1. SameTickets /\ visible' = visible
    BY <1>2, IdleEffect DEF FindOwn
  <2> QED BY <1>2, <2>1 DEF FindOwn, Goto, SameTickets, local
<1>3. ASSUME NEW p \in Proc, Requeue(p) PROVE NoTicketOwned'
  <2>1. PICK i \in Fresh(p) : Publish(p, i)
    BY <1>3 DEF Requeue
  <2>2. /\ dir' \in Directory
        /\ i \in Id
        /\ visible' = visible \cup {i}
        /\ \A j \in visible : j # i /\ dir'[j] = dir[j]
        /\ dir'[i] = [owner |-> p, start |-> start[p], seq |-> clock, old |-> FALSE]
        /\ \A q \in Proc : (q # p => my[q] # i) /\ i \notin todo[q]
        /\ my' = [my EXCEPT ![p] = i]
    BY <2>1, PublishEffect
  <2> QED BY <1>3, <2>2 DEF Requeue, Goto
<1>4. ASSUME NEW p \in Proc, List(p) PROVE NoTicketOwned'
  <2>1. SameTickets /\ visible' = visible
    BY <1>4, IdleEffect DEF List
  <2> QED BY <1>4, <2>1 DEF List, Goto, SameTickets, local
<1>5. ASSUME NEW p \in Proc, ListFails(p) PROVE NoTicketOwned'
  <2>1. SameTickets /\ visible' = visible \ {my[p]}
    BY <1>5, UnlinkEffect DEF ListFails, Drop
  <2> QED BY <1>5, <2>1 DEF ListFails, Forget, EndScan, Goto, SameTickets, local
<1>6. ASSUME NEW p \in Proc, NEW i \in Id, ReadOther(p, i) PROVE NoTicketOwned'
  <2>1. SameTickets /\ visible \ {i} \subseteq visible'
    BY <1>6, UnlinkEffect, IdleEffect DEF ReadOther, Digest
  <2> QED BY <1>6, <2>1 DEF ReadOther, Digest, Goto, SameTickets, local
<1>7. ASSUME NEW p \in Proc, NEW i \in Id, MisreadOther(p, i) PROVE NoTicketOwned'
  <2>1. SameTickets /\ visible \ {i} \subseteq visible'
    BY <1>7, UnlinkEffect, IdleEffect DEF MisreadOther, Digest
  <2> QED BY <1>7, <2>1 DEF MisreadOther, Digest, Goto, SameTickets, local
<1>8. ASSUME NEW p \in Proc, Enter(p) PROVE NoTicketOwned'
  <2>1. SameTickets /\ visible' = visible
    BY <1>8, IdleEffect DEF Enter
  <2> QED BY <1>8, <2>1 DEF Enter, Scanned, Goto, SameTickets, local
<1>9. ASSUME NEW p \in Proc, GiveUp(p) PROVE NoTicketOwned'
  <2>1. SameTickets /\ visible' = visible \ {my[p]}
    BY <1>9, UnlinkEffect DEF GiveUp, Drop
  <2> QED BY <1>9, <2>1 DEF GiveUp, Scanned, Forget, EndScan, Goto, SameTickets, local
<1>10. ASSUME NEW p \in Proc, Withdraw(p) PROVE NoTicketOwned'
  <2>1. SameTickets /\ visible' = visible \ {my[p]}
    BY <1>10, UnlinkEffect DEF Withdraw, Drop
  <2> QED BY <1>10, <2>1 DEF Withdraw, Scanned, EndScan, Goto, SameTickets, local
<1>11. ASSUME NEW p \in Proc, Rejoin(p) PROVE NoTicketOwned'
  <2>1. PICK i \in Fresh(p) : Publish(p, i)
    BY <1>11 DEF Rejoin
  <2>2. /\ dir' \in Directory
        /\ i \in Id
        /\ visible' = visible \cup {i}
        /\ \A j \in visible : j # i /\ dir'[j] = dir[j]
        /\ dir'[i] = [owner |-> p, start |-> start[p], seq |-> clock, old |-> FALSE]
        /\ \A q \in Proc : (q # p => my[q] # i) /\ i \notin todo[q]
        /\ my' = [my EXCEPT ![p] = i]
    BY <2>1, PublishEffect
  <2> QED BY <1>11, <2>2 DEF Rejoin, Goto
<1>12. ASSUME NEW p \in Proc, PublishFails(p) PROVE NoTicketOwned'
  <2>1. SameTickets /\ visible' = visible
    BY <1>12, IdleEffect DEF PublishFails
  <2> QED BY <1>12, <2>1 DEF PublishFails, Forget, EndScan, Goto, SameTickets, local
<1>13. ASSUME NEW p \in Proc, Retry(p) PROVE NoTicketOwned'
  <2>1. SameTickets /\ visible' = visible
    BY <1>13, IdleEffect DEF Retry
  <2> QED BY <1>13, <2>1 DEF Retry, Scanned, EndScan, NextAttempt, Goto, SameTickets, local
<1>14. ASSUME NEW p \in Proc, Quit(p) PROVE NoTicketOwned'
  <2>1. SameTickets /\ visible' = visible \ {my[p]}
    BY <1>14, UnlinkEffect DEF Quit, Drop
  <2> QED BY <1>14, <2>1 DEF Quit, Forget, EndScan, Goto, SameTickets, local
<1>15. ASSUME NEW p \in Proc, Release(p) PROVE NoTicketOwned'
  <2>1. SameTickets /\ visible' = visible \ {my[p]}
    BY <1>15, UnlinkEffect DEF Release, Drop
  <2> QED BY <1>15, <2>1 DEF Release, Forget, EndScan, Goto, SameTickets, local
<1>16. ASSUME NEW p \in Proc, Crash(p) PROVE NoTicketOwned'
  <2>1. SameTickets /\ visible' = visible
    BY <1>16, IdleEffect DEF Crash
  <2> QED BY <1>16, <2>1 DEF Crash, Forget, EndScan, Goto, SameTickets, local
<1>17. ASSUME NEW p \in Proc, Respawn(p) PROVE NoTicketOwned'
  <2>1. SameTickets /\ visible' = visible
    BY <1>17, IdleEffect DEF Respawn
  <2> QED BY <1>17, <2>1 DEF Respawn, Goto, SameTickets, local
<1>18. CASE Tick
  <2>1. SameTickets /\ visible' = visible
    BY <1>18, IdleEffect DEF Tick
  <2> QED BY <1>18, <2>1 DEF Tick, SameTickets, local
<1>19. ASSUME NEW i \in Id, Age(i) PROVE NoTicketOwned'
  <2>1. SameTickets /\ visible' = visible
    BY <1>19, AgeEffect
  <2> QED BY <1>19, <2>1 DEF Age, SameTickets, local
<1>20. ASSUME NEW i \in Id, Lose(i) PROVE NoTicketOwned'
  <2>1. SameTickets /\ visible' = visible \ {i}
    BY <1>20, UnlinkEffect DEF Lose
  <2> QED BY <1>20, <2>1 DEF Lose, SameTickets, local
<1>21. CASE UNCHANGED vars
  BY <1>21, IdleEffect DEF vars, local, SameTickets
<1> QED
  BY <1>1, <1>2, <1>3, <1>4, <1>5, <1>6, <1>7, <1>8, <1>9, <1>10, <1>11, <1>12, <1>13,
       <1>14, <1>15, <1>16, <1>17, <1>18, <1>19, <1>20, <1>21 DEF Next, Call, Env

(* Neither ctimes nor start tokens come from the future. *)
LEMMA NotFromFutureStep ==
  ASSUME IInv, [Next]_vars
  PROVE  NotFromFuture'
<1> USE BoundsAssumption, NobodyAssumption, VisibleIsTicket DEF IInv, TypeOK,
      NotFromFuture, Ticket
<1>1. ASSUME NEW p \in Proc, Take(p) PROVE NotFromFuture'
  <2>1. PICK i \in Fresh(p) : Publish(p, i)
    BY <1>1 DEF Take
  <2>2. /\ dir' \in Directory
        /\ i \in Id
        /\ visible' = visible \cup {i}
        /\ \A j \in visible : j # i /\ dir'[j] = dir[j]
        /\ dir'[i] = [owner |-> p, start |-> start[p], seq |-> clock, old |-> FALSE]
        /\ \A q \in Proc : (q # p => my[q] # i) /\ i \notin todo[q]
        /\ my' = [my EXCEPT ![p] = i]
    BY <2>1, PublishEffect
  <2> QED BY <1>1, <2>2 DEF Take, Goto
<1>2. ASSUME NEW p \in Proc, FindOwn(p) PROVE NotFromFuture'
  <2>1. SameTickets /\ visible' = visible
    BY <1>2, IdleEffect DEF FindOwn
  <2> QED BY <1>2, <2>1 DEF FindOwn, Goto, SameTickets, local
<1>3. ASSUME NEW p \in Proc, Requeue(p) PROVE NotFromFuture'
  <2>1. PICK i \in Fresh(p) : Publish(p, i)
    BY <1>3 DEF Requeue
  <2>2. /\ dir' \in Directory
        /\ i \in Id
        /\ visible' = visible \cup {i}
        /\ \A j \in visible : j # i /\ dir'[j] = dir[j]
        /\ dir'[i] = [owner |-> p, start |-> start[p], seq |-> clock, old |-> FALSE]
        /\ \A q \in Proc : (q # p => my[q] # i) /\ i \notin todo[q]
        /\ my' = [my EXCEPT ![p] = i]
    BY <2>1, PublishEffect
  <2> QED BY <1>3, <2>2 DEF Requeue, Goto
<1>4. ASSUME NEW p \in Proc, List(p) PROVE NotFromFuture'
  <2>1. SameTickets /\ visible' = visible
    BY <1>4, IdleEffect DEF List
  <2> QED BY <1>4, <2>1 DEF List, Goto, SameTickets, local
<1>5. ASSUME NEW p \in Proc, ListFails(p) PROVE NotFromFuture'
  <2>1. SameTickets /\ visible' = visible \ {my[p]}
    BY <1>5, UnlinkEffect DEF ListFails, Drop
  <2> QED BY <1>5, <2>1 DEF ListFails, Forget, EndScan, Goto, SameTickets, local
<1>6. ASSUME NEW p \in Proc, NEW i \in Id, ReadOther(p, i) PROVE NotFromFuture'
  <2>1. SameTickets /\ visible \ {i} \subseteq visible'
    BY <1>6, UnlinkEffect, IdleEffect DEF ReadOther, Digest
  <2> QED BY <1>6, <2>1 DEF ReadOther, Digest, Goto, SameTickets, local
<1>7. ASSUME NEW p \in Proc, NEW i \in Id, MisreadOther(p, i) PROVE NotFromFuture'
  <2>1. SameTickets /\ visible \ {i} \subseteq visible'
    BY <1>7, UnlinkEffect, IdleEffect DEF MisreadOther, Digest
  <2> QED BY <1>7, <2>1 DEF MisreadOther, Digest, Goto, SameTickets, local
<1>8. ASSUME NEW p \in Proc, Enter(p) PROVE NotFromFuture'
  <2>1. SameTickets /\ visible' = visible
    BY <1>8, IdleEffect DEF Enter
  <2> QED BY <1>8, <2>1 DEF Enter, Scanned, Goto, SameTickets, local
<1>9. ASSUME NEW p \in Proc, GiveUp(p) PROVE NotFromFuture'
  <2>1. SameTickets /\ visible' = visible \ {my[p]}
    BY <1>9, UnlinkEffect DEF GiveUp, Drop
  <2> QED BY <1>9, <2>1 DEF GiveUp, Scanned, Forget, EndScan, Goto, SameTickets, local
<1>10. ASSUME NEW p \in Proc, Withdraw(p) PROVE NotFromFuture'
  <2>1. SameTickets /\ visible' = visible \ {my[p]}
    BY <1>10, UnlinkEffect DEF Withdraw, Drop
  <2> QED BY <1>10, <2>1 DEF Withdraw, Scanned, EndScan, Goto, SameTickets, local
<1>11. ASSUME NEW p \in Proc, Rejoin(p) PROVE NotFromFuture'
  <2>1. PICK i \in Fresh(p) : Publish(p, i)
    BY <1>11 DEF Rejoin
  <2>2. /\ dir' \in Directory
        /\ i \in Id
        /\ visible' = visible \cup {i}
        /\ \A j \in visible : j # i /\ dir'[j] = dir[j]
        /\ dir'[i] = [owner |-> p, start |-> start[p], seq |-> clock, old |-> FALSE]
        /\ \A q \in Proc : (q # p => my[q] # i) /\ i \notin todo[q]
        /\ my' = [my EXCEPT ![p] = i]
    BY <2>1, PublishEffect
  <2> QED BY <1>11, <2>2 DEF Rejoin, Goto
<1>12. ASSUME NEW p \in Proc, PublishFails(p) PROVE NotFromFuture'
  <2>1. SameTickets /\ visible' = visible
    BY <1>12, IdleEffect DEF PublishFails
  <2> QED BY <1>12, <2>1 DEF PublishFails, Forget, EndScan, Goto, SameTickets, local
<1>13. ASSUME NEW p \in Proc, Retry(p) PROVE NotFromFuture'
  <2>1. SameTickets /\ visible' = visible
    BY <1>13, IdleEffect DEF Retry
  <2> QED BY <1>13, <2>1 DEF Retry, Scanned, EndScan, NextAttempt, Goto, SameTickets, local
<1>14. ASSUME NEW p \in Proc, Quit(p) PROVE NotFromFuture'
  <2>1. SameTickets /\ visible' = visible \ {my[p]}
    BY <1>14, UnlinkEffect DEF Quit, Drop
  <2> QED BY <1>14, <2>1 DEF Quit, Forget, EndScan, Goto, SameTickets, local
<1>15. ASSUME NEW p \in Proc, Release(p) PROVE NotFromFuture'
  <2>1. SameTickets /\ visible' = visible \ {my[p]}
    BY <1>15, UnlinkEffect DEF Release, Drop
  <2> QED BY <1>15, <2>1 DEF Release, Forget, EndScan, Goto, SameTickets, local
<1>16. ASSUME NEW p \in Proc, Crash(p) PROVE NotFromFuture'
  <2>1. SameTickets /\ visible' = visible
    BY <1>16, IdleEffect DEF Crash
  <2> QED BY <1>16, <2>1 DEF Crash, Forget, EndScan, Goto, SameTickets, local
<1>17. ASSUME NEW p \in Proc, Respawn(p) PROVE NotFromFuture'
  <2>1. SameTickets /\ visible' = visible
    BY <1>17, IdleEffect DEF Respawn
  <2> QED BY <1>17, <2>1 DEF Respawn, Goto, SameTickets, local
<1>18. CASE Tick
  <2>1. SameTickets /\ visible' = visible
    BY <1>18, IdleEffect DEF Tick
  <2> QED BY <1>18, <2>1 DEF Tick, SameTickets, local
<1>19. ASSUME NEW i \in Id, Age(i) PROVE NotFromFuture'
  <2>1. SameTickets /\ visible' = visible
    BY <1>19, AgeEffect
  <2> QED BY <1>19, <2>1 DEF Age, SameTickets, local
<1>20. ASSUME NEW i \in Id, Lose(i) PROVE NotFromFuture'
  <2>1. SameTickets /\ visible' = visible \ {i}
    BY <1>20, UnlinkEffect DEF Lose
  <2> QED BY <1>20, <2>1 DEF Lose, SameTickets, local
<1>21. CASE UNCHANGED vars
  BY <1>21, IdleEffect DEF vars, local, SameTickets
<1> QED
  BY <1>1, <1>2, <1>3, <1>4, <1>5, <1>6, <1>7, <1>8, <1>9, <1>10, <1>11, <1>12, <1>13,
       <1>14, <1>15, <1>16, <1>17, <1>18, <1>19, <1>20, <1>21 DEF Next, Call, Env

(* What a call read of its own ticket stays true while it is there. *)
LEMMA MineReadStep ==
  ASSUME IInv, [Next]_vars
  PROVE  MineRead'
<1> USE DEF IInv, TypeOK, MineRead
<1>1. ASSUME NEW p \in Proc, Take(p) PROVE MineRead'
  <2>1. PICK i \in Fresh(p) : Publish(p, i)
    BY <1>1 DEF Take
  <2>2. /\ dir' \in Directory
        /\ i \in Id
        /\ visible' = visible \cup {i}
        /\ \A j \in visible : j # i /\ dir'[j] = dir[j]
        /\ dir'[i] = [owner |-> p, start |-> start[p], seq |-> clock, old |-> FALSE]
        /\ \A q \in Proc : (q # p => my[q] # i) /\ i \notin todo[q]
        /\ my' = [my EXCEPT ![p] = i]
    BY <2>1, PublishEffect
  <2> QED BY <1>1, <2>2 DEF Take, Goto
<1>2. ASSUME NEW p \in Proc, FindOwn(p) PROVE MineRead'
  <2>1. SameTickets /\ visible' = visible
    BY <1>2, IdleEffect DEF FindOwn
  <2> QED BY <1>2, <2>1 DEF FindOwn, Goto, SameTickets, local
<1>3. ASSUME NEW p \in Proc, Requeue(p) PROVE MineRead'
  <2>1. PICK i \in Fresh(p) : Publish(p, i)
    BY <1>3 DEF Requeue
  <2>2. /\ dir' \in Directory
        /\ i \in Id
        /\ visible' = visible \cup {i}
        /\ \A j \in visible : j # i /\ dir'[j] = dir[j]
        /\ dir'[i] = [owner |-> p, start |-> start[p], seq |-> clock, old |-> FALSE]
        /\ \A q \in Proc : (q # p => my[q] # i) /\ i \notin todo[q]
        /\ my' = [my EXCEPT ![p] = i]
    BY <2>1, PublishEffect
  <2> QED BY <1>3, <2>2 DEF Requeue, Goto
<1>4. ASSUME NEW p \in Proc, List(p) PROVE MineRead'
  <2>1. SameTickets /\ visible' = visible
    BY <1>4, IdleEffect DEF List
  <2> QED BY <1>4, <2>1 DEF List, Goto, SameTickets, local
<1>5. ASSUME NEW p \in Proc, ListFails(p) PROVE MineRead'
  <2>1. SameTickets /\ visible' = visible \ {my[p]}
    BY <1>5, UnlinkEffect DEF ListFails, Drop
  <2> QED BY <1>5, <2>1 DEF ListFails, Forget, EndScan, Goto, SameTickets, local
<1>6. ASSUME NEW p \in Proc, NEW i \in Id, ReadOther(p, i) PROVE MineRead'
  <2>1. SameTickets /\ visible \ {i} \subseteq visible'
    BY <1>6, UnlinkEffect, IdleEffect DEF ReadOther, Digest
  <2> QED BY <1>6, <2>1 DEF ReadOther, Digest, Goto, SameTickets, local
<1>7. ASSUME NEW p \in Proc, NEW i \in Id, MisreadOther(p, i) PROVE MineRead'
  <2>1. SameTickets /\ visible \ {i} \subseteq visible'
    BY <1>7, UnlinkEffect, IdleEffect DEF MisreadOther, Digest
  <2> QED BY <1>7, <2>1 DEF MisreadOther, Digest, Goto, SameTickets, local
<1>8. ASSUME NEW p \in Proc, Enter(p) PROVE MineRead'
  <2>1. SameTickets /\ visible' = visible
    BY <1>8, IdleEffect DEF Enter
  <2> QED BY <1>8, <2>1 DEF Enter, Scanned, Goto, SameTickets, local
<1>9. ASSUME NEW p \in Proc, GiveUp(p) PROVE MineRead'
  <2>1. SameTickets /\ visible' = visible \ {my[p]}
    BY <1>9, UnlinkEffect DEF GiveUp, Drop
  <2> QED BY <1>9, <2>1 DEF GiveUp, Scanned, Forget, EndScan, Goto, SameTickets, local
<1>10. ASSUME NEW p \in Proc, Withdraw(p) PROVE MineRead'
  <2>1. SameTickets /\ visible' = visible \ {my[p]}
    BY <1>10, UnlinkEffect DEF Withdraw, Drop
  <2> QED BY <1>10, <2>1 DEF Withdraw, Scanned, EndScan, Goto, SameTickets, local
<1>11. ASSUME NEW p \in Proc, Rejoin(p) PROVE MineRead'
  <2>1. PICK i \in Fresh(p) : Publish(p, i)
    BY <1>11 DEF Rejoin
  <2>2. /\ dir' \in Directory
        /\ i \in Id
        /\ visible' = visible \cup {i}
        /\ \A j \in visible : j # i /\ dir'[j] = dir[j]
        /\ dir'[i] = [owner |-> p, start |-> start[p], seq |-> clock, old |-> FALSE]
        /\ \A q \in Proc : (q # p => my[q] # i) /\ i \notin todo[q]
        /\ my' = [my EXCEPT ![p] = i]
    BY <2>1, PublishEffect
  <2> QED BY <1>11, <2>2 DEF Rejoin, Goto
<1>12. ASSUME NEW p \in Proc, PublishFails(p) PROVE MineRead'
  <2>1. SameTickets /\ visible' = visible
    BY <1>12, IdleEffect DEF PublishFails
  <2> QED BY <1>12, <2>1 DEF PublishFails, Forget, EndScan, Goto, SameTickets, local
<1>13. ASSUME NEW p \in Proc, Retry(p) PROVE MineRead'
  <2>1. SameTickets /\ visible' = visible
    BY <1>13, IdleEffect DEF Retry
  <2> QED BY <1>13, <2>1 DEF Retry, Scanned, EndScan, NextAttempt, Goto, SameTickets, local
<1>14. ASSUME NEW p \in Proc, Quit(p) PROVE MineRead'
  <2>1. SameTickets /\ visible' = visible \ {my[p]}
    BY <1>14, UnlinkEffect DEF Quit, Drop
  <2> QED BY <1>14, <2>1 DEF Quit, Forget, EndScan, Goto, SameTickets, local
<1>15. ASSUME NEW p \in Proc, Release(p) PROVE MineRead'
  <2>1. SameTickets /\ visible' = visible \ {my[p]}
    BY <1>15, UnlinkEffect DEF Release, Drop
  <2> QED BY <1>15, <2>1 DEF Release, Forget, EndScan, Goto, SameTickets, local
<1>16. ASSUME NEW p \in Proc, Crash(p) PROVE MineRead'
  <2>1. SameTickets /\ visible' = visible
    BY <1>16, IdleEffect DEF Crash
  <2> QED BY <1>16, <2>1 DEF Crash, Forget, EndScan, Goto, SameTickets, local
<1>17. ASSUME NEW p \in Proc, Respawn(p) PROVE MineRead'
  <2>1. SameTickets /\ visible' = visible
    BY <1>17, IdleEffect DEF Respawn
  <2> QED BY <1>17, <2>1 DEF Respawn, Goto, SameTickets, local
<1>18. CASE Tick
  <2>1. SameTickets /\ visible' = visible
    BY <1>18, IdleEffect DEF Tick
  <2> QED BY <1>18, <2>1 DEF Tick, SameTickets, local
<1>19. ASSUME NEW i \in Id, Age(i) PROVE MineRead'
  <2>1. SameTickets /\ visible' = visible
    BY <1>19, AgeEffect
  <2> QED BY <1>19, <2>1 DEF Age, SameTickets, local
<1>20. ASSUME NEW i \in Id, Lose(i) PROVE MineRead'
  <2>1. SameTickets /\ visible' = visible \ {i}
    BY <1>20, UnlinkEffect DEF Lose
  <2> QED BY <1>20, <2>1 DEF Lose, SameTickets, local
<1>21. CASE UNCHANGED vars
  BY <1>21, IdleEffect DEF vars, local, SameTickets
<1> QED
  BY <1>1, <1>2, <1>3, <1>4, <1>5, <1>6, <1>7, <1>8, <1>9, <1>10, <1>11, <1>12, <1>13,
       <1>14, <1>15, <1>16, <1>17, <1>18, <1>19, <1>20, <1>21 DEF Next, Call, Env

(* A call leaves no ticket behind. *)
LEMMA NoTicketLeakedStep ==
  ASSUME IInv, [Next]_vars
  PROVE  NoTicketLeaked'
<1> USE NobodyAssumption, VisibleIsTicket DEF IInv, TypeOK, NoTicketLeaked, OwnTicket,
      NoTicketOwned, NotFromFuture, Ticket
<1>1. ASSUME NEW p \in Proc, Take(p) PROVE NoTicketLeaked'
  <2>1. PICK i \in Fresh(p) : Publish(p, i)
    BY <1>1 DEF Take
  <2>2. /\ dir' \in Directory
        /\ i \in Id
        /\ visible' = visible \cup {i}
        /\ \A j \in visible : j # i /\ dir'[j] = dir[j]
        /\ dir'[i] = [owner |-> p, start |-> start[p], seq |-> clock, old |-> FALSE]
        /\ \A q \in Proc : (q # p => my[q] # i) /\ i \notin todo[q]
        /\ my' = [my EXCEPT ![p] = i]
    BY <2>1, PublishEffect
  <2> QED BY <1>1, <2>2 DEF Take, Goto
<1>2. ASSUME NEW p \in Proc, FindOwn(p) PROVE NoTicketLeaked'
  <2>1. SameTickets /\ visible' = visible
    BY <1>2, IdleEffect DEF FindOwn
  <2> QED BY <1>2, <2>1 DEF FindOwn, Goto, SameTickets, local
<1>3. ASSUME NEW p \in Proc, Requeue(p) PROVE NoTicketLeaked'
  <2>1. PICK i \in Fresh(p) : Publish(p, i)
    BY <1>3 DEF Requeue
  <2>2. /\ dir' \in Directory
        /\ i \in Id
        /\ visible' = visible \cup {i}
        /\ \A j \in visible : j # i /\ dir'[j] = dir[j]
        /\ dir'[i] = [owner |-> p, start |-> start[p], seq |-> clock, old |-> FALSE]
        /\ \A q \in Proc : (q # p => my[q] # i) /\ i \notin todo[q]
        /\ my' = [my EXCEPT ![p] = i]
    BY <2>1, PublishEffect
  <2> QED BY <1>3, <2>2 DEF Requeue, Goto
<1>4. ASSUME NEW p \in Proc, List(p) PROVE NoTicketLeaked'
  <2>1. SameTickets /\ visible' = visible
    BY <1>4, IdleEffect DEF List
  <2> QED BY <1>4, <2>1 DEF List, Goto, SameTickets, local
<1>5. ASSUME NEW p \in Proc, ListFails(p) PROVE NoTicketLeaked'
  <2>1. SameTickets /\ visible' = visible \ {my[p]}
    BY <1>5, UnlinkEffect DEF ListFails, Drop
  <2> QED BY <1>5, <2>1 DEF ListFails, Forget, EndScan, Goto, SameTickets, local
<1>6. ASSUME NEW p \in Proc, NEW i \in Id, ReadOther(p, i) PROVE NoTicketLeaked'
  <2>1. SameTickets /\ visible \ {i} \subseteq visible'
    BY <1>6, UnlinkEffect, IdleEffect DEF ReadOther, Digest
  <2> QED BY <1>6, <2>1 DEF ReadOther, Digest, Goto, SameTickets, local
<1>7. ASSUME NEW p \in Proc, NEW i \in Id, MisreadOther(p, i) PROVE NoTicketLeaked'
  <2>1. SameTickets /\ visible \ {i} \subseteq visible'
    BY <1>7, UnlinkEffect, IdleEffect DEF MisreadOther, Digest
  <2> QED BY <1>7, <2>1 DEF MisreadOther, Digest, Goto, SameTickets, local
<1>8. ASSUME NEW p \in Proc, Enter(p) PROVE NoTicketLeaked'
  <2>1. SameTickets /\ visible' = visible
    BY <1>8, IdleEffect DEF Enter
  <2> QED BY <1>8, <2>1 DEF Enter, Scanned, Goto, SameTickets, local
<1>9. ASSUME NEW p \in Proc, GiveUp(p) PROVE NoTicketLeaked'
  <2>1. SameTickets /\ visible' = visible \ {my[p]}
    BY <1>9, UnlinkEffect DEF GiveUp, Drop
  <2> QED BY <1>9, <2>1 DEF GiveUp, Scanned, Forget, EndScan, Goto, SameTickets, local
<1>10. ASSUME NEW p \in Proc, Withdraw(p) PROVE NoTicketLeaked'
  <2>1. SameTickets /\ visible' = visible \ {my[p]}
    BY <1>10, UnlinkEffect DEF Withdraw, Drop
  <2> QED BY <1>10, <2>1 DEF Withdraw, Scanned, EndScan, Goto, SameTickets, local
<1>11. ASSUME NEW p \in Proc, Rejoin(p) PROVE NoTicketLeaked'
  <2>1. PICK i \in Fresh(p) : Publish(p, i)
    BY <1>11 DEF Rejoin
  <2>2. /\ dir' \in Directory
        /\ i \in Id
        /\ visible' = visible \cup {i}
        /\ \A j \in visible : j # i /\ dir'[j] = dir[j]
        /\ dir'[i] = [owner |-> p, start |-> start[p], seq |-> clock, old |-> FALSE]
        /\ \A q \in Proc : (q # p => my[q] # i) /\ i \notin todo[q]
        /\ my' = [my EXCEPT ![p] = i]
    BY <2>1, PublishEffect
  <2> QED BY <1>11, <2>2 DEF Rejoin, Goto
<1>12. ASSUME NEW p \in Proc, PublishFails(p) PROVE NoTicketLeaked'
  <2>1. SameTickets /\ visible' = visible
    BY <1>12, IdleEffect DEF PublishFails
  <2> QED BY <1>12, <2>1 DEF PublishFails, Forget, EndScan, Goto, SameTickets, local
<1>13. ASSUME NEW p \in Proc, Retry(p) PROVE NoTicketLeaked'
  <2>1. SameTickets /\ visible' = visible
    BY <1>13, IdleEffect DEF Retry
  <2> QED BY <1>13, <2>1 DEF Retry, Scanned, EndScan, NextAttempt, Goto, SameTickets, local
<1>14. ASSUME NEW p \in Proc, Quit(p) PROVE NoTicketLeaked'
  <2>1. SameTickets /\ visible' = visible \ {my[p]}
    BY <1>14, UnlinkEffect DEF Quit, Drop
  <2> QED BY <1>14, <2>1 DEF Quit, Forget, EndScan, Goto, SameTickets, local
<1>15. ASSUME NEW p \in Proc, Release(p) PROVE NoTicketLeaked'
  <2>1. SameTickets /\ visible' = visible \ {my[p]}
    BY <1>15, UnlinkEffect DEF Release, Drop
  <2> QED BY <1>15, <2>1 DEF Release, Forget, EndScan, Goto, SameTickets, local
<1>16. ASSUME NEW p \in Proc, Crash(p) PROVE NoTicketLeaked'
  <2>1. SameTickets /\ visible' = visible
    BY <1>16, IdleEffect DEF Crash
  <2> QED BY <1>16, <2>1 DEF Crash, Forget, EndScan, Goto, SameTickets, local
<1>17. ASSUME NEW p \in Proc, Respawn(p) PROVE NoTicketLeaked'
  <2>1. SameTickets /\ visible' = visible
    BY <1>17, IdleEffect DEF Respawn
  <2> QED BY <1>17, <2>1 DEF Respawn, Goto, SameTickets, local
<1>18. CASE Tick
  <2>1. SameTickets /\ visible' = visible
    BY <1>18, IdleEffect DEF Tick
  <2> QED BY <1>18, <2>1 DEF Tick, SameTickets, local
<1>19. ASSUME NEW i \in Id, Age(i) PROVE NoTicketLeaked'
  <2>1. SameTickets /\ visible' = visible
    BY <1>19, AgeEffect
  <2> QED BY <1>19, <2>1 DEF Age, SameTickets, local
<1>20. ASSUME NEW i \in Id, Lose(i) PROVE NoTicketLeaked'
  <2>1. SameTickets /\ visible' = visible \ {i}
    BY <1>20, UnlinkEffect DEF Lose
  <2> QED BY <1>20, <2>1 DEF Lose, SameTickets, local
<1>21. CASE UNCHANGED vars
  BY <1>21, IdleEffect DEF vars, local, SameTickets
<1> QED
  BY <1>1, <1>2, <1>3, <1>4, <1>5, <1>6, <1>7, <1>8, <1>9, <1>10, <1>11, <1>12, <1>13,
       <1>14, <1>15, <1>16, <1>17, <1>18, <1>19, <1>20, <1>21 DEF Next, Call, Env

(* No step but a fault takes the ticket of a running call. *)
LEMMA LiveTicketKeptStep ==
  ASSUME IInv, [Next]_vars
  PROVE  LiveTicketKept'
<1> USE NobodyAssumption, BoundsAssumption, OwnUnique DEF IInv, TypeOK, LiveTicketKept
<1>1. ASSUME NEW p \in Proc, Take(p) PROVE LiveTicketKept'
  <2>1. PICK i \in Fresh(p) : Publish(p, i)
    BY <1>1 DEF Take
  <2>2. /\ dir' \in Directory
        /\ i \in Id
        /\ visible' = visible \cup {i}
        /\ \A j \in visible : j # i /\ dir'[j] = dir[j]
        /\ dir'[i] = [owner |-> p, start |-> start[p], seq |-> clock, old |-> FALSE]
        /\ \A q \in Proc : (q # p => my[q] # i) /\ i \notin todo[q]
        /\ my' = [my EXCEPT ![p] = i]
    BY <2>1, PublishEffect
  <2> QED BY <1>1, <2>2 DEF Take, Goto
<1>2. ASSUME NEW p \in Proc, FindOwn(p) PROVE LiveTicketKept'
  <2>1. SameTickets /\ visible' = visible
    BY <1>2, IdleEffect DEF FindOwn
  <2> QED BY <1>2, <2>1 DEF FindOwn, Goto, SameTickets, local
<1>3. ASSUME NEW p \in Proc, Requeue(p) PROVE LiveTicketKept'
  <2>1. PICK i \in Fresh(p) : Publish(p, i)
    BY <1>3 DEF Requeue
  <2>2. /\ dir' \in Directory
        /\ i \in Id
        /\ visible' = visible \cup {i}
        /\ \A j \in visible : j # i /\ dir'[j] = dir[j]
        /\ dir'[i] = [owner |-> p, start |-> start[p], seq |-> clock, old |-> FALSE]
        /\ \A q \in Proc : (q # p => my[q] # i) /\ i \notin todo[q]
        /\ my' = [my EXCEPT ![p] = i]
    BY <2>1, PublishEffect
  <2> QED BY <1>3, <2>2 DEF Requeue, Goto
<1>4. ASSUME NEW p \in Proc, List(p) PROVE LiveTicketKept'
  <2>1. SameTickets /\ visible' = visible
    BY <1>4, IdleEffect DEF List
  <2> QED BY <1>4, <2>1 DEF List, Goto, SameTickets, local
<1>5. ASSUME NEW p \in Proc, ListFails(p) PROVE LiveTicketKept'
  <2>1. SameTickets /\ visible' = visible \ {my[p]}
    BY <1>5, UnlinkEffect DEF ListFails, Drop
  <2> QED BY <1>5, <2>1 DEF ListFails, Forget, EndScan, Goto, SameTickets, local
<1>6. ASSUME NEW p \in Proc, NEW i \in Id, ReadOther(p, i) PROVE LiveTicketKept'
  <2>1. SameTickets /\ visible \ {i} \subseteq visible'
    BY <1>6, UnlinkEffect, IdleEffect DEF ReadOther, Digest
  <2>2. i \in visible' \/ i \notin visible \/ OwnerGone(i)
    BY <1>6, IdleEffect DEF ReadOther, Digest
  <2>3. ASSUME NEW q \in Proc, Queued(q), my[q] = i, i \in visible
        PROVE  ~OwnerGone(i)
    BY <2>3 DEF OwnTicket, OwnerGone
  <2> QED BY <1>6, <2>1, <2>2, <2>3 DEF ReadOther, Digest, SameTickets
<1>7. ASSUME NEW p \in Proc, NEW i \in Id, MisreadOther(p, i) PROVE LiveTicketKept'
  <2>1. SameTickets /\ visible \ {i} \subseteq visible'
    BY <1>7, UnlinkEffect, IdleEffect DEF MisreadOther, Digest
  <2> QED BY <1>7, <2>1 DEF MisreadOther, Digest, Goto, SameTickets, local
<1>8. ASSUME NEW p \in Proc, Enter(p) PROVE LiveTicketKept'
  <2>1. SameTickets /\ visible' = visible
    BY <1>8, IdleEffect DEF Enter
  <2> QED BY <1>8, <2>1 DEF Enter, Scanned, Goto, SameTickets, local
<1>9. ASSUME NEW p \in Proc, GiveUp(p) PROVE LiveTicketKept'
  <2>1. SameTickets /\ visible' = visible \ {my[p]}
    BY <1>9, UnlinkEffect DEF GiveUp, Drop
  <2> QED BY <1>9, <2>1 DEF GiveUp, Scanned, Forget, EndScan, Goto, SameTickets, local
<1>10. ASSUME NEW p \in Proc, Withdraw(p) PROVE LiveTicketKept'
  <2>1. SameTickets /\ visible' = visible \ {my[p]}
    BY <1>10, UnlinkEffect DEF Withdraw, Drop
  <2> QED BY <1>10, <2>1 DEF Withdraw, Scanned, EndScan, Goto, SameTickets, local
<1>11. ASSUME NEW p \in Proc, Rejoin(p) PROVE LiveTicketKept'
  <2>1. PICK i \in Fresh(p) : Publish(p, i)
    BY <1>11 DEF Rejoin
  <2>2. /\ dir' \in Directory
        /\ i \in Id
        /\ visible' = visible \cup {i}
        /\ \A j \in visible : j # i /\ dir'[j] = dir[j]
        /\ dir'[i] = [owner |-> p, start |-> start[p], seq |-> clock, old |-> FALSE]
        /\ \A q \in Proc : (q # p => my[q] # i) /\ i \notin todo[q]
        /\ my' = [my EXCEPT ![p] = i]
    BY <2>1, PublishEffect
  <2> QED BY <1>11, <2>2 DEF Rejoin, Goto
<1>12. ASSUME NEW p \in Proc, PublishFails(p) PROVE LiveTicketKept'
  <2>1. SameTickets /\ visible' = visible
    BY <1>12, IdleEffect DEF PublishFails
  <2> QED BY <1>12, <2>1 DEF PublishFails, Forget, EndScan, Goto, SameTickets, local
<1>13. ASSUME NEW p \in Proc, Retry(p) PROVE LiveTicketKept'
  <2>1. SameTickets /\ visible' = visible
    BY <1>13, IdleEffect DEF Retry
  <2> QED BY <1>13, <2>1 DEF Retry, Scanned, EndScan, NextAttempt, Goto, SameTickets, local
<1>14. ASSUME NEW p \in Proc, Quit(p) PROVE LiveTicketKept'
  <2>1. SameTickets /\ visible' = visible \ {my[p]}
    BY <1>14, UnlinkEffect DEF Quit, Drop
  <2> QED BY <1>14, <2>1 DEF Quit, Forget, EndScan, Goto, SameTickets, local
<1>15. ASSUME NEW p \in Proc, Release(p) PROVE LiveTicketKept'
  <2>1. SameTickets /\ visible' = visible \ {my[p]}
    BY <1>15, UnlinkEffect DEF Release, Drop
  <2> QED BY <1>15, <2>1 DEF Release, Forget, EndScan, Goto, SameTickets, local
<1>16. ASSUME NEW p \in Proc, Crash(p) PROVE LiveTicketKept'
  <2>1. SameTickets /\ visible' = visible
    BY <1>16, IdleEffect DEF Crash
  <2> QED BY <1>16, <2>1 DEF Crash, Forget, EndScan, Goto, SameTickets, local
<1>17. ASSUME NEW p \in Proc, Respawn(p) PROVE LiveTicketKept'
  <2>1. SameTickets /\ visible' = visible
    BY <1>17, IdleEffect DEF Respawn
  <2> QED BY <1>17, <2>1 DEF Respawn, Goto, SameTickets, local
<1>18. CASE Tick
  <2>1. SameTickets /\ visible' = visible
    BY <1>18, IdleEffect DEF Tick
  <2> QED BY <1>18, <2>1 DEF Tick, SameTickets, local
<1>19. ASSUME NEW i \in Id, Age(i) PROVE LiveTicketKept'
  <2>1. SameTickets /\ visible' = visible
    BY <1>19, AgeEffect
  <2> QED BY <1>19, <2>1 DEF Age, SameTickets, local
<1>20. ASSUME NEW i \in Id, Lose(i) PROVE LiveTicketKept'
  <2>1. SameTickets /\ visible' = visible \ {i}
    BY <1>20, UnlinkEffect DEF Lose
  <2> QED BY <1>20, <2>1 DEF Lose, SameTickets, local
<1>21. CASE UNCHANGED vars
  BY <1>21, IdleEffect DEF vars, local, SameTickets
<1> QED
  BY <1>1, <1>2, <1>3, <1>4, <1>5, <1>6, <1>7, <1>8, <1>9, <1>10, <1>11, <1>12, <1>13,
       <1>14, <1>15, <1>16, <1>17, <1>18, <1>19, <1>20, <1>21 DEF Next, Call, Env

(* The order of the queue survives a step after which no call has a new ticket *)
(* and no call is past a ticket it was not past before.                        *)
LEMMA QueueOrderKept ==
  ASSUME IInv, SameTickets,
         \A r \in Proc : my'[r] \in visible' => my'[r] = my[r],
         \A r \in Proc, i \in visible' :
           (my[r] \in visible' /\ i # my[r] /\ Past(r, i)') => Past(r, i)
  PROVE  QueueOrder'
<1> SUFFICES ASSUME NEW r \in Proc, NEW s \in Proc, r # s,
                    my'[r] \in visible', my'[s] \in visible', Past(r, my[s])'
             PROVE  \/ dir'[my'[r]].seq < dir'[my'[s]].seq
                    \/ dir'[my'[r]].seq = dir'[my'[s]].seq /\ ~Past(s, my[r])'
  BY DEF QueueOrder
<1>1. my'[r] = my[r] /\ my'[s] = my[s] /\ my[r] \in visible /\ my[s] \in visible
  BY DEF SameTickets
<1>2. my[r] # my[s]
  BY <1>1, OwnUnique DEF IInv
<1>3. Past(r, my[s])
  BY <1>1, <1>2
<1>4. Past(s, my[r])' => Past(s, my[r])
  BY <1>1, <1>2
<1>5. dir'[my'[r]].seq = dir[my[r]].seq /\ dir'[my'[s]].seq = dir[my[s]].seq
  BY <1>1 DEF SameTickets
<1> QED BY <1>1, <1>3, <1>4, <1>5 DEF IInv, QueueOrder

(* Reading one listed ticket keeps the order, whatever decides that it is gone. *)
LEMMA DigestOrder ==
  ASSUME IInv, NEW p \in Proc, NEW i \in Id, NEW gone,
         pc[p] = "scan", ~blocked[p], UNCHANGED <<pc, my, mine>>,
         Digest(p, i, gone)
  PROVE  QueueOrder'
<1> USE DEF IInv
<1>1. SameTickets
  BY UnlinkEffect, IdleEffect DEF Digest
<1>2. my' = my /\ pc' = pc /\ \A r \in Proc \ {p} : \A k : Past(r, k)' <=> Past(r, k)
  BY DEF Digest, Past, TypeOK
<1>3. \A k : Past(p, k)' => Past(p, k) \/ k = i
  BY DEF Digest, Past, TypeOK
<1>4. CASE Past(p, i)' /\ i \in visible' /\ my[p] \in visible'
  <2>1. my[p] \in visible /\ i \in visible /\ mine[p] = dir[my[p]].seq
    BY <1>1, <1>4 DEF Digest, SameTickets, MineRead
  <2>2. ~gone
    <3> SUFFICES ASSUME gone PROVE FALSE
      OBVIOUS
  <3>1. dir' = [dir EXCEPT ![i] = Absent]
    BY <2>1 DEF Digest
  <3> QED BY <1>4, <3>1, UnlinkEffect
  <2>3. pc[p] = "scan" /\ pc'[p] = "scan" /\ ~blocked'[p] /\ ~tied'[p]
    BY <1>2, <1>4 DEF Digest, Past
  <2>4. ~Older(p, i) /\ ~SameAge(p, i)
    BY <2>1, <2>2, <2>3 DEF Digest, TypeOK
  <2>5. dir[my[p]].seq < dir[i].seq
    BY <2>1, <2>4, VisibleIsTicket, BoundsAssumption DEF Older, SameAge, Ticket
  <2>6. SUFFICES ASSUME NEW r \in Proc, NEW s \in Proc, r # s,
                        my'[r] \in visible', my'[s] \in visible', Past(r, my[s])'
                 PROVE  \/ dir'[my'[r]].seq < dir'[my'[s]].seq
                        \/ dir'[my'[r]].seq = dir'[my'[s]].seq /\ ~Past(s, my[r])'
    BY DEF QueueOrder
  <2>7. /\ my'[r] = my[r] /\ my'[s] = my[s] /\ my[r] \in visible /\ my[s] \in visible
        /\ dir'[my'[r]].seq = dir[my[r]].seq /\ dir'[my'[s]].seq = dir[my[s]].seq
    BY <1>1, <1>2, <2>6 DEF SameTickets
  <2>8. CASE r = p /\ my[s] = i
    BY <2>5, <2>7, <2>8
  <2>9. CASE ~(r = p /\ my[s] = i)
    <3>1. Past(r, my[s])
      BY <1>2, <1>3, <2>6, <2>7, <2>9
    <3>2. CASE s = p /\ my[r] = i
      <4>1. \/ dir[my[r]].seq < dir[my[s]].seq \/ dir[my[r]].seq = dir[my[s]].seq
        BY <2>6, <2>7, <3>1 DEF QueueOrder
      <4> QED BY <2>1, <2>5, <2>7, <3>2, <4>1, VisibleIsTicket, BoundsAssumption DEF Ticket
    <3>3. CASE ~(s = p /\ my[r] = i)
      <4>1. Past(s, my[r])' => Past(s, my[r])
        BY <1>2, <1>3, <2>7, <3>3
      <4> QED BY <2>6, <2>7, <3>1, <4>1 DEF QueueOrder
    <3> QED BY <3>2, <3>3
  <2> QED BY <2>8, <2>9
<1>5. CASE ~(Past(p, i)' /\ i \in visible' /\ my[p] \in visible')
  <2>1. \A r \in Proc, k \in visible' :
          (my[r] \in visible' /\ k # my[r] /\ Past(r, k)') => Past(r, k)
    BY <1>2, <1>3, <1>5
  <2> QED BY <1>1, <1>2, <2>1, QueueOrderKept
<1> QED BY <1>4, <1>5

(* Whoever is past a queued ticket is older, or tied and ahead. *)
LEMMA QueueOrderStep ==
  ASSUME IInv, [Next]_vars
  PROVE  QueueOrder'
<1> USE DEF IInv
<1>1. ASSUME NEW p \in Proc, Take(p) PROVE QueueOrder'
  <2>1. PICK j \in Fresh(p) : Publish(p, j)
    BY <1>1 DEF Take
  <2>2. /\ visible' = visible \cup {j}
        /\ \A k \in visible : k # j /\ dir'[k] = dir[k]
        /\ dir'[j] = [owner |-> p, start |-> start[p], seq |-> clock, old |-> FALSE]
        /\ my' = [my EXCEPT ![p] = j]
    BY <2>1, PublishEffect
  <2>3. \A k : ~Past(p, k)'
    BY <1>1 DEF Take, Goto, Past, TypeOK
  <2>4. \A r \in Proc \ {p} : my'[r] = my[r] /\ \A k : Past(r, k)' <=> Past(r, k)
    BY <1>1, <2>2 DEF Take, Goto, Past, TypeOK
  <2>5. \A r \in Proc \ {p} : my[r] \in visible' => my[r] \in visible
    BY <2>1, <2>2, PublishEffect
  <2>6. SUFFICES ASSUME NEW r \in Proc, NEW s \in Proc, r # s,
                        my'[r] \in visible', my'[s] \in visible', Past(r, my[s])'
                 PROVE  \/ dir'[my'[r]].seq < dir'[my'[s]].seq
                        \/ dir'[my'[r]].seq = dir'[my'[s]].seq /\ ~Past(s, my[r])'
    BY DEF QueueOrder
  <2>7. r # p /\ my'[r] = my[r] /\ my[r] \in visible
    BY <2>3, <2>4, <2>5, <2>6
  <2>8. CASE s = p
    <3>1. my'[s] = j /\ dir'[my'[s]].seq = clock /\ ~Past(s, my[r])'
      BY <2>2, <2>3, <2>8 DEF TypeOK
    <3>2. dir'[my'[r]].seq <= clock /\ dir'[my'[r]].seq \in Int /\ clock \in Int
      BY <2>2, <2>7, VisibleIsTicket, BoundsAssumption DEF NotFromFuture, Ticket, TypeOK
    <3> QED BY <3>1, <3>2
  <2>9. CASE s # p
    <3>1. my'[s] = my[s] /\ my[s] \in visible /\ Past(r, my[s])
      BY <2>4, <2>5, <2>6, <2>7, <2>9
    <3>2. Past(s, my[r])' <=> Past(s, my[r])
      BY <2>4, <2>7, <2>9
    <3>3. dir'[my'[r]] = dir[my[r]] /\ dir'[my'[s]] = dir[my[s]]
      BY <2>2, <2>7, <3>1
    <3> QED BY <2>6, <2>7, <3>1, <3>2, <3>3 DEF QueueOrder
  <2> QED BY <2>8, <2>9
<1>2. ASSUME NEW p \in Proc, FindOwn(p) PROVE QueueOrder'
  <2>1. SameTickets
    BY <1>2, IdleEffect DEF FindOwn
  <2>2. \A r \in Proc : my'[r] \in visible' => my'[r] = my[r]
    BY <1>2, NobodyAssumption DEF FindOwn, Goto, local, visible, TypeOK
  <2>3. \A r \in Proc, k \in visible' :
          (my[r] \in visible' /\ k # my[r] /\ Past(r, k)') => Past(r, k)
    BY <1>2, <2>1 DEF FindOwn, Goto, local, Past, TypeOK, SameTickets
  <2> QED BY <2>1, <2>2, <2>3, QueueOrderKept
<1>3. ASSUME NEW p \in Proc, Requeue(p) PROVE QueueOrder'
  <2>1. PICK j \in Fresh(p) : Publish(p, j)
    BY <1>3 DEF Requeue
  <2>2. /\ visible' = visible \cup {j}
        /\ \A k \in visible : k # j /\ dir'[k] = dir[k]
        /\ dir'[j] = [owner |-> p, start |-> start[p], seq |-> clock, old |-> FALSE]
        /\ my' = [my EXCEPT ![p] = j]
    BY <2>1, PublishEffect
  <2>3. \A k : ~Past(p, k)'
    BY <1>3 DEF Requeue, Goto, Past, TypeOK
  <2>4. \A r \in Proc \ {p} : my'[r] = my[r] /\ \A k : Past(r, k)' <=> Past(r, k)
    BY <1>3, <2>2 DEF Requeue, Goto, Past, TypeOK
  <2>5. \A r \in Proc \ {p} : my[r] \in visible' => my[r] \in visible
    BY <2>1, <2>2, PublishEffect
  <2>6. SUFFICES ASSUME NEW r \in Proc, NEW s \in Proc, r # s,
                        my'[r] \in visible', my'[s] \in visible', Past(r, my[s])'
                 PROVE  \/ dir'[my'[r]].seq < dir'[my'[s]].seq
                        \/ dir'[my'[r]].seq = dir'[my'[s]].seq /\ ~Past(s, my[r])'
    BY DEF QueueOrder
  <2>7. r # p /\ my'[r] = my[r] /\ my[r] \in visible
    BY <2>3, <2>4, <2>5, <2>6
  <2>8. CASE s = p
    <3>1. my'[s] = j /\ dir'[my'[s]].seq = clock /\ ~Past(s, my[r])'
      BY <2>2, <2>3, <2>8 DEF TypeOK
    <3>2. dir'[my'[r]].seq <= clock /\ dir'[my'[r]].seq \in Int /\ clock \in Int
      BY <2>2, <2>7, VisibleIsTicket, BoundsAssumption DEF NotFromFuture, Ticket, TypeOK
    <3> QED BY <3>1, <3>2
  <2>9. CASE s # p
    <3>1. my'[s] = my[s] /\ my[s] \in visible /\ Past(r, my[s])
      BY <2>4, <2>5, <2>6, <2>7, <2>9
    <3>2. Past(s, my[r])' <=> Past(s, my[r])
      BY <2>4, <2>7, <2>9
    <3>3. dir'[my'[r]] = dir[my[r]] /\ dir'[my'[s]] = dir[my[s]]
      BY <2>2, <2>7, <3>1
    <3> QED BY <2>6, <2>7, <3>1, <3>2, <3>3 DEF QueueOrder
  <2> QED BY <2>8, <2>9
<1>4. ASSUME NEW p \in Proc, List(p) PROVE QueueOrder'
  <2>1. SameTickets
    BY <1>4, IdleEffect DEF List
  <2>2. \A r \in Proc : my'[r] \in visible' => my'[r] = my[r]
    BY <1>4, NobodyAssumption DEF List, Goto, local, visible, TypeOK
  <2>3. \A r \in Proc, k \in visible' :
          (my[r] \in visible' /\ k # my[r] /\ Past(r, k)') => Past(r, k)
    BY <1>4, <2>1 DEF List, Goto, local, Past, TypeOK, SameTickets
  <2> QED BY <2>1, <2>2, <2>3, QueueOrderKept
<1>5. ASSUME NEW p \in Proc, ListFails(p) PROVE QueueOrder'
  <2>1. SameTickets
    BY <1>5, UnlinkEffect DEF ListFails, Drop
  <2>2. \A r \in Proc : my'[r] \in visible' => my'[r] = my[r]
    BY <1>5, NobodyAssumption DEF ListFails, Forget, EndScan, Goto, local, visible, TypeOK
  <2>3. \A r \in Proc, k \in visible' :
          (my[r] \in visible' /\ k # my[r] /\ Past(r, k)') => Past(r, k)
    BY <1>5, <2>1 DEF ListFails, Forget, EndScan, Goto, local, Past, TypeOK, SameTickets
  <2> QED BY <2>1, <2>2, <2>3, QueueOrderKept
<1>6. ASSUME NEW p \in Proc, NEW i \in Id, ReadOther(p, i) PROVE QueueOrder'
  BY <1>6, DigestOrder DEF ReadOther
<1>7. ASSUME NEW p \in Proc, NEW i \in Id, MisreadOther(p, i) PROVE QueueOrder'
  BY <1>7, DigestOrder DEF MisreadOther
<1>8. ASSUME NEW p \in Proc, Enter(p) PROVE QueueOrder'
  <2>1. SameTickets
    BY <1>8, IdleEffect DEF Enter
  <2>2. \A r \in Proc : my'[r] \in visible' => my'[r] = my[r]
    BY <1>8, NobodyAssumption DEF Enter, Scanned, Goto, local, visible, TypeOK
  <2>3. \A r \in Proc, k \in visible' :
          (my[r] \in visible' /\ k # my[r] /\ Past(r, k)') => Past(r, k)
    BY <1>8, <2>1 DEF Enter, Scanned, Goto, local, Past, TypeOK, SameTickets
  <2> QED BY <2>1, <2>2, <2>3, QueueOrderKept
<1>9. ASSUME NEW p \in Proc, GiveUp(p) PROVE QueueOrder'
  <2>1. SameTickets
    BY <1>9, UnlinkEffect DEF GiveUp, Drop
  <2>2. \A r \in Proc : my'[r] \in visible' => my'[r] = my[r]
    BY <1>9, NobodyAssumption DEF GiveUp, Scanned, Forget, EndScan, Goto, local, visible,
         TypeOK
  <2>3. \A r \in Proc, k \in visible' :
          (my[r] \in visible' /\ k # my[r] /\ Past(r, k)') => Past(r, k)
    BY <1>9, <2>1 DEF GiveUp, Scanned, Forget, EndScan, Goto, local, Past, TypeOK,
         SameTickets
  <2> QED BY <2>1, <2>2, <2>3, QueueOrderKept
<1>10. ASSUME NEW p \in Proc, Withdraw(p) PROVE QueueOrder'
  <2>1. SameTickets
    BY <1>10, UnlinkEffect DEF Withdraw, Drop
  <2>2. \A r \in Proc : my'[r] \in visible' => my'[r] = my[r]
    BY <1>10, NobodyAssumption DEF Withdraw, Scanned, EndScan, Goto, local, visible, TypeOK
  <2>3. \A r \in Proc, k \in visible' :
          (my[r] \in visible' /\ k # my[r] /\ Past(r, k)') => Past(r, k)
    BY <1>10, <2>1 DEF Withdraw, Scanned, EndScan, Goto, local, Past, TypeOK, SameTickets
  <2> QED BY <2>1, <2>2, <2>3, QueueOrderKept
<1>11. ASSUME NEW p \in Proc, Rejoin(p) PROVE QueueOrder'
  <2>1. PICK j \in Fresh(p) : Publish(p, j)
    BY <1>11 DEF Rejoin
  <2>2. /\ visible' = visible \cup {j}
        /\ \A k \in visible : k # j /\ dir'[k] = dir[k]
        /\ dir'[j] = [owner |-> p, start |-> start[p], seq |-> clock, old |-> FALSE]
        /\ my' = [my EXCEPT ![p] = j]
    BY <2>1, PublishEffect
  <2>3. \A k : ~Past(p, k)'
    BY <1>11 DEF Rejoin, Goto, Past, TypeOK
  <2>4. \A r \in Proc \ {p} : my'[r] = my[r] /\ \A k : Past(r, k)' <=> Past(r, k)
    BY <1>11, <2>2 DEF Rejoin, Goto, Past, TypeOK
  <2>5. \A r \in Proc \ {p} : my[r] \in visible' => my[r] \in visible
    BY <2>1, <2>2, PublishEffect
  <2>6. SUFFICES ASSUME NEW r \in Proc, NEW s \in Proc, r # s,
                        my'[r] \in visible', my'[s] \in visible', Past(r, my[s])'
                 PROVE  \/ dir'[my'[r]].seq < dir'[my'[s]].seq
                        \/ dir'[my'[r]].seq = dir'[my'[s]].seq /\ ~Past(s, my[r])'
    BY DEF QueueOrder
  <2>7. r # p /\ my'[r] = my[r] /\ my[r] \in visible
    BY <2>3, <2>4, <2>5, <2>6
  <2>8. CASE s = p
    <3>1. my'[s] = j /\ dir'[my'[s]].seq = clock /\ ~Past(s, my[r])'
      BY <2>2, <2>3, <2>8 DEF TypeOK
    <3>2. dir'[my'[r]].seq <= clock /\ dir'[my'[r]].seq \in Int /\ clock \in Int
      BY <2>2, <2>7, VisibleIsTicket, BoundsAssumption DEF NotFromFuture, Ticket, TypeOK
    <3> QED BY <3>1, <3>2
  <2>9. CASE s # p
    <3>1. my'[s] = my[s] /\ my[s] \in visible /\ Past(r, my[s])
      BY <2>4, <2>5, <2>6, <2>7, <2>9
    <3>2. Past(s, my[r])' <=> Past(s, my[r])
      BY <2>4, <2>7, <2>9
    <3>3. dir'[my'[r]] = dir[my[r]] /\ dir'[my'[s]] = dir[my[s]]
      BY <2>2, <2>7, <3>1
    <3> QED BY <2>6, <2>7, <3>1, <3>2, <3>3 DEF QueueOrder
  <2> QED BY <2>8, <2>9
<1>12. ASSUME NEW p \in Proc, PublishFails(p) PROVE QueueOrder'
  <2>1. SameTickets
    BY <1>12, IdleEffect DEF PublishFails
  <2>2. \A r \in Proc : my'[r] \in visible' => my'[r] = my[r]
    BY <1>12, NobodyAssumption DEF PublishFails, Forget, EndScan, Goto, local, visible,
         TypeOK
  <2>3. \A r \in Proc, k \in visible' :
          (my[r] \in visible' /\ k # my[r] /\ Past(r, k)') => Past(r, k)
    BY <1>12, <2>1 DEF PublishFails, Forget, EndScan, Goto, local, Past, TypeOK, SameTickets
  <2> QED BY <2>1, <2>2, <2>3, QueueOrderKept
<1>13. ASSUME NEW p \in Proc, Retry(p) PROVE QueueOrder'
  <2>1. SameTickets
    BY <1>13, IdleEffect DEF Retry
  <2>2. \A r \in Proc : my'[r] \in visible' => my'[r] = my[r]
    BY <1>13, NobodyAssumption DEF Retry, Scanned, EndScan, NextAttempt, Goto, local,
         visible, TypeOK
  <2>3. \A r \in Proc, k \in visible' :
          (my[r] \in visible' /\ k # my[r] /\ Past(r, k)') => Past(r, k)
    BY <1>13, <2>1 DEF Retry, Scanned, EndScan, NextAttempt, Goto, local, Past, TypeOK,
         SameTickets
  <2> QED BY <2>1, <2>2, <2>3, QueueOrderKept
<1>14. ASSUME NEW p \in Proc, Quit(p) PROVE QueueOrder'
  <2>1. SameTickets
    BY <1>14, UnlinkEffect DEF Quit, Drop
  <2>2. \A r \in Proc : my'[r] \in visible' => my'[r] = my[r]
    BY <1>14, NobodyAssumption DEF Quit, Forget, EndScan, Goto, local, visible, TypeOK
  <2>3. \A r \in Proc, k \in visible' :
          (my[r] \in visible' /\ k # my[r] /\ Past(r, k)') => Past(r, k)
    BY <1>14, <2>1 DEF Quit, Forget, EndScan, Goto, local, Past, TypeOK, SameTickets
  <2> QED BY <2>1, <2>2, <2>3, QueueOrderKept
<1>15. ASSUME NEW p \in Proc, Release(p) PROVE QueueOrder'
  <2>1. SameTickets
    BY <1>15, UnlinkEffect DEF Release, Drop
  <2>2. \A r \in Proc : my'[r] \in visible' => my'[r] = my[r]
    BY <1>15, NobodyAssumption DEF Release, Forget, EndScan, Goto, local, visible, TypeOK
  <2>3. \A r \in Proc, k \in visible' :
          (my[r] \in visible' /\ k # my[r] /\ Past(r, k)') => Past(r, k)
    BY <1>15, <2>1 DEF Release, Forget, EndScan, Goto, local, Past, TypeOK, SameTickets
  <2> QED BY <2>1, <2>2, <2>3, QueueOrderKept
<1>16. ASSUME NEW p \in Proc, Crash(p) PROVE QueueOrder'
  <2>1. SameTickets
    BY <1>16, IdleEffect DEF Crash
  <2>2. \A r \in Proc : my'[r] \in visible' => my'[r] = my[r]
    BY <1>16, NobodyAssumption DEF Crash, Forget, EndScan, Goto, local, visible, TypeOK
  <2>3. \A r \in Proc, k \in visible' :
          (my[r] \in visible' /\ k # my[r] /\ Past(r, k)') => Past(r, k)
    BY <1>16, <2>1 DEF Crash, Forget, EndScan, Goto, local, Past, TypeOK, SameTickets
  <2> QED BY <2>1, <2>2, <2>3, QueueOrderKept
<1>17. ASSUME NEW p \in Proc, Respawn(p) PROVE QueueOrder'
  <2>1. SameTickets
    BY <1>17, IdleEffect DEF Respawn
  <2>2. \A r \in Proc : my'[r] \in visible' => my'[r] = my[r]
    BY <1>17, NobodyAssumption DEF Respawn, Goto, local, visible, TypeOK
  <2>3. \A r \in Proc, k \in visible' :
          (my[r] \in visible' /\ k # my[r] /\ Past(r, k)') => Past(r, k)
    BY <1>17, <2>1 DEF Respawn, Goto, local, Past, TypeOK, SameTickets
  <2> QED BY <2>1, <2>2, <2>3, QueueOrderKept
<1>18. CASE Tick
  <2>1. SameTickets
    BY <1>18, IdleEffect DEF Tick
  <2>2. \A r \in Proc : my'[r] \in visible' => my'[r] = my[r]
    BY <1>18, NobodyAssumption DEF Tick, local, visible, TypeOK
  <2>3. \A r \in Proc, k \in visible' :
          (my[r] \in visible' /\ k # my[r] /\ Past(r, k)') => Past(r, k)
    BY <1>18, <2>1 DEF Tick, local, Past, TypeOK, SameTickets
  <2> QED BY <2>1, <2>2, <2>3, QueueOrderKept
<1>19. ASSUME NEW i \in Id, Age(i) PROVE QueueOrder'
  <2>1. SameTickets
    BY <1>19, AgeEffect
  <2>2. \A r \in Proc : my'[r] \in visible' => my'[r] = my[r]
    BY <1>19, NobodyAssumption DEF Age, local, visible, TypeOK
  <2>3. \A r \in Proc, k \in visible' :
          (my[r] \in visible' /\ k # my[r] /\ Past(r, k)') => Past(r, k)
    BY <1>19, <2>1 DEF Age, local, Past, TypeOK, SameTickets
  <2> QED BY <2>1, <2>2, <2>3, QueueOrderKept
<1>20. ASSUME NEW i \in Id, Lose(i) PROVE QueueOrder'
  <2>1. SameTickets
    BY <1>20, UnlinkEffect DEF Lose
  <2>2. \A r \in Proc : my'[r] \in visible' => my'[r] = my[r]
    BY <1>20, NobodyAssumption DEF Lose, local, visible, TypeOK
  <2>3. \A r \in Proc, k \in visible' :
          (my[r] \in visible' /\ k # my[r] /\ Past(r, k)') => Past(r, k)
    BY <1>20, <2>1 DEF Lose, local, Past, TypeOK, SameTickets
  <2> QED BY <2>1, <2>2, <2>3, QueueOrderKept
<1>21. CASE UNCHANGED vars
  <2>1. SameTickets
    BY <1>21, IdleEffect DEF vars
  <2>2. my' = my /\ \A r \in Proc : \A k : Past(r, k)' <=> Past(r, k)
    BY <1>21 DEF vars, local, Past
  <2> QED BY <2>1, <2>2, QueueOrderKept
<1> QED
  BY <1>1, <1>2, <1>3, <1>4, <1>5, <1>6, <1>7, <1>8, <1>9, <1>10, <1>11, <1>12, <1>13,
       <1>14, <1>15, <1>16, <1>17, <1>18, <1>19, <1>20, <1>21 DEF Next, Call, Env

(* The invariant is inductive. *)
LEMMA StepIInv ==
  ASSUME IInv, [Next]_vars
  PROVE  IInv'
<1>1. TypeOK' /\ AttemptsLeft'
  BY TypeStep, AttemptsStep DEF IInv
<1>2. OwnTicket' /\ NoTicketOwned'
  BY OwnTicketStep, NoTicketOwnedStep
<1>3. NotFromFuture' /\ MineRead' /\ NoTicketLeaked'
  BY NotFromFutureStep, MineReadStep, NoTicketLeakedStep
<1>4. LiveTicketKept' /\ QueueOrder'
  BY LiveTicketKeptStep, QueueOrderStep
<1> QED BY <1>1, <1>2, <1>3, <1>4 DEF IInv

(* Every reachable state satisfies it. *)
THEOREM Invariance == Spec => []IInv
<1>1. Init => IInv
  BY InitIInv
<1>2. IInv /\ [Next]_vars => IInv'
  BY StepIInv
<1> QED BY <1>1, <1>2, PTL DEF Spec

-----------------------------------------------------------------------------
(* Type correctness of the guard. *)
THEOREM TypeCorrectness == Spec => []TypeOK
<1>1. IInv => TypeOK
  BY DEF IInv
<1> QED BY Invariance, <1>1, PTL

(* The order of the queue excludes two holders. *)
LEMMA QueueOrderExcludes == IInv => OneHolder
<1> SUFFICES ASSUME IInv,
                    NEW p \in Proc, pc[p] = "section", my[p] \in visible,
                    NEW q \in Proc, pc[q] = "section", my[q] \in visible,
                    p # q
             PROVE  FALSE
  BY DEF OneHolder
<1>1. Past(p, my[q]) /\ Past(q, my[p])
  BY DEF Past
<1>2. dir[my[p]].seq < dir[my[q]].seq /\ dir[my[q]].seq < dir[my[p]].seq
  BY <1>1 DEF IInv, QueueOrder
<1>3. dir[my[p]].seq \in Int /\ dir[my[q]].seq \in Int
  BY VisibleIsTicket, BoundsAssumption DEF IInv, Ticket
<1> QED BY <1>2, <1>3

(* Mutual exclusion: takeGuard never lets in a second process while the ticket *)
(* of the first is in the directory, whichever processes died, whichever pids  *)
(* were recycled, however coarse the clock and whatever files were lost.       *)
THEOREM MutualExclusion == Spec => []OneHolder
  BY Invariance, QueueOrderExcludes, PTL

(* A live owner keeps its ticket for as long as it lives: no sweep of another  *)
(* process ever deletes it.                                                    *)
THEOREM TicketsKept == Spec => []LiveTicketKept
<1>1. IInv => LiveTicketKept
  BY DEF IInv
<1> QED BY Invariance, <1>1, PTL

(* Whatever exit a call takes, no ticket of it stays behind. *)
THEOREM NoLeak == Spec => []NoTicketLeaked
<1>1. IInv => NoTicketLeaked
  BY DEF IInv
<1> QED BY Invariance, <1>1, PTL
-----------------------------------------------------------------------------
(* Without lost files takeGuard is the abstract critical section. *)

inside == {p \in Proc : pc[p] = "section"}

(* Who else is inside when a process gets in: nobody. *)
LEMMA EnterAlone ==
  ASSUME IInv, IInv', faults = 0, NEW p \in Proc, Enter(p)
  PROVE  inside = {} /\ inside' = {p}
<1>1. pc' = [pc EXCEPT ![p] = "section"] /\ my' = my /\ dir' = dir /\ pc[p] = "scan"
  BY DEF Enter, Goto, Scanned, local
<1>2. \A q \in Proc : pc[q] = "section" => q = p
  <2> SUFFICES ASSUME NEW q \in Proc, pc[q] = "section" PROVE q = p
    OBVIOUS
  <2>1. my[q] \in visible /\ my[p] \in visible
    BY <1>1 DEF IInv, LiveTicketKept
  <2>2. my'[q] \in visible' /\ my'[p] \in visible'
    BY <1>1, <2>1 DEF visible
  <2>3. pc'[q] = "section" /\ pc'[p] = "section"
    BY <1>1 DEF IInv, TypeOK
  <2>4. OneHolder'
    BY QueueOrderExcludes, PTL
  <2> QED BY <2>2, <2>3, <2>4 DEF OneHolder
<1> QED BY <1>1, <1>2 DEF inside, IInv, TypeOK

(* At first nobody is inside. *)
LEMMA SectionInit == Init => Abstract!Init
  BY DEF Init, Abstract!Init

(* Every step enters the empty section, leaves it, or does not touch it. *)
LEMMA SectionStep ==
  ASSUME IInv, IInv', faults = 0, [Next]_vars
  PROVE  [Abstract!Next]_inside
<1> USE DEF inside, IInv, TypeOK
<1>1. ASSUME NEW p \in Proc, Take(p) PROVE [Abstract!Next]_inside
  BY <1>1 DEF Take, Goto
<1>2. ASSUME NEW p \in Proc, FindOwn(p) PROVE [Abstract!Next]_inside
  BY <1>2 DEF FindOwn, Goto
<1>3. ASSUME NEW p \in Proc, Requeue(p) PROVE [Abstract!Next]_inside
  BY <1>3 DEF Requeue, Goto
<1>4. ASSUME NEW p \in Proc, List(p) PROVE [Abstract!Next]_inside
  BY <1>4 DEF List, Goto
<1>5. ASSUME NEW p \in Proc, ListFails(p) PROVE [Abstract!Next]_inside
  BY <1>5 DEF ListFails, Goto
<1>6. ASSUME NEW p \in Proc, NEW i \in Id, ReadOther(p, i) PROVE [Abstract!Next]_inside
  BY <1>6 DEF ReadOther
<1>7. ASSUME NEW p \in Proc, NEW i \in Id, MisreadOther(p, i) PROVE [Abstract!Next]_inside
  BY <1>7 DEF MisreadOther
<1>8. ASSUME NEW p \in Proc, Enter(p) PROVE [Abstract!Next]_inside
  BY <1>8, EnterAlone DEF Abstract!Next, Abstract!Enter
<1>9. ASSUME NEW p \in Proc, GiveUp(p) PROVE [Abstract!Next]_inside
  BY <1>9 DEF GiveUp, Goto, Scanned
<1>10. ASSUME NEW p \in Proc, Withdraw(p) PROVE [Abstract!Next]_inside
  BY <1>10 DEF Withdraw, Goto, Scanned
<1>11. ASSUME NEW p \in Proc, Rejoin(p) PROVE [Abstract!Next]_inside
  BY <1>11 DEF Rejoin, Goto
<1>12. ASSUME NEW p \in Proc, PublishFails(p) PROVE [Abstract!Next]_inside
  BY <1>12 DEF PublishFails, Goto
<1>13. ASSUME NEW p \in Proc, Retry(p) PROVE [Abstract!Next]_inside
  BY <1>13 DEF Retry, Goto, Scanned
<1>14. ASSUME NEW p \in Proc, Quit(p) PROVE [Abstract!Next]_inside
  BY <1>14 DEF Quit, Goto
<1>15. ASSUME NEW p \in Proc, Release(p) PROVE [Abstract!Next]_inside
  <2>1. inside' = inside \ {p}
    BY <1>15 DEF Release, Goto
  <2> QED BY <1>15, <2>1 DEF Release, Abstract!Next, Abstract!Leave
<1>16. ASSUME NEW p \in Proc, Crash(p) PROVE [Abstract!Next]_inside
  <2>1. inside' = inside \ {p}
    BY <1>16 DEF Crash, Goto
  <2> QED BY <2>1 DEF Abstract!Next, Abstract!Leave
<1>17. ASSUME NEW p \in Proc, Respawn(p) PROVE [Abstract!Next]_inside
  BY <1>17 DEF Respawn, Goto
<1>18. CASE Tick
  BY <1>18 DEF Tick
<1>19. ASSUME NEW i \in Id, Age(i) PROVE [Abstract!Next]_inside
  BY <1>19 DEF Age
<1>20. ASSUME NEW i \in Id, Lose(i) PROVE [Abstract!Next]_inside
  BY <1>20 DEF Lose
<1>21. CASE UNCHANGED vars
  BY <1>21 DEF vars
<1> QED
  BY <1>1, <1>2, <1>3, <1>4, <1>5, <1>6, <1>7, <1>8, <1>9, <1>10, <1>11, <1>12, <1>13,
       <1>14, <1>15, <1>16, <1>17, <1>18, <1>19, <1>20, <1>21 DEF Next, Call, Env

(* takeGuard implements the abstract section: who gets in finds it empty. *)
THEOREM ImplementsSection ==
  ASSUME MaxFaults = 0
  PROVE  Spec => Implements
<1>1. Init => Abstract!Init
  BY SectionInit
<1>2. IInv => faults = 0
  BY DEF IInv, TypeOK
<1>3. IInv /\ IInv' /\ [Next]_vars => [Abstract!Next]_inside
  BY <1>2, SectionStep
<1> QED BY <1>1, <1>3, Invariance, PTL DEF Spec, Implements, Abstract!Spec, inside
-----------------------------------------------------------------------------
(* What CrashHeals and CallReturns rest on, apart from fairness.                *)

Calling(p, i) == dir[i].owner = p /\ my[p] = i /\ pc[p] \notin {"idle", "dead"}
YoungJunk(i) == dir[i].owner = Nobody /\ ~dir[i].old
Mistaken(i) == ~HasProbe /\ \E p \in Proc : dir[i].owner = p /\ dir[i].start # start[p]

(* What stands in the way of a call is another call that is under way; or it is *)
(* young and names nobody; or its owner's pid was taken by another process and  *)
(* the platform cannot tell.  No other leftover of a crash ever blocks.         *)
THEOREM DeadNeverBlock ==
  Spec => [](\A i \in visible :
               OwnerGone(i) \/ YoungJunk(i) \/ Mistaken(i) \/ \E p \in Proc : Calling(p, i))
<1>1. ASSUME IInv, NEW i \in visible
      PROVE  OwnerGone(i) \/ YoungJunk(i) \/ Mistaken(i) \/ \E p \in Proc : Calling(p, i)
  <2>1. i \in Id /\ dir[i] \in Ticket
    BY <1>1, VisibleIsTicket DEF IInv
  <2>2. CASE dir[i].owner = Nobody
    BY <2>2 DEF OwnerGone, YoungJunk
  <2>3. CASE dir[i].owner # Nobody
    <3>1. PICK p \in Proc : dir[i].owner = p
      BY <2>1, <2>3 DEF Ticket
    <3>2. CASE dir[i].start # start[p] \/ pc[p] = "dead"
      BY <2>3, <3>1, <3>2, ProbeAssumption DEF OwnerGone, Mistaken
    <3>3. CASE dir[i].start = start[p] /\ pc[p] # "dead"
      <4>1. my[p] = i /\ my[p] # Nobody
        BY <2>1, <3>1, <3>3, <1>1, NobodyAssumption DEF IInv, NoTicketLeaked
      <4>2. pc[p] # "idle"
        BY <1>1, <4>1 DEF IInv, NoTicketOwned
      <4> QED BY <3>1, <3>3, <4>1, <4>2 DEF Calling
    <3> QED BY <3>2, <3>3
  <2> QED BY <2>2, <2>3
<1>2. IInv => \A i \in visible :
                OwnerGone(i) \/ YoungJunk(i) \/ Mistaken(i) \/ \E p \in Proc : Calling(p, i)
  BY <1>1
<1> QED BY Invariance, <1>2, PTL

InCall == {"own", "list", "scan", "again", "quit"}

(* A call is over, or begins a further attempt of those it has, or goes on in   *)
(* the same one: to the next of its phases or the next ticket.                  *)
Nearer(p) ==
  \/ pc'[p] \notin InCall
  \/ attempt'[p] = attempt[p] + 1 /\ attempt'[p] <= Attempts
  \/ attempt'[p] = attempt[p]
       /\ <<pc[p], pc'[p]>> \in {<<"own", "list">>, <<"list", "scan">>, <<"scan", "again">>}
  \/ /\ attempt'[p] = attempt[p] /\ pc[p] = "scan" /\ pc'[p] = "scan"
     /\ \E i \in todo[p] : todo'[p] = todo[p] \ {i}
Nears == \A p \in Proc : Call(p) => Nearer(p)

LEMMA CallNears == ASSUME IInv, NEW p \in Proc, Call(p) PROVE Nearer(p)
<1> USE DEF IInv, TypeOK, Nearer, InCall, Goto, Forget, EndScan, NextAttempt, LastAttempt, Scanned, local
<1>1. CASE FindOwn(p)
  BY <1>1 DEF FindOwn
<1>2. CASE Requeue(p)
  BY <1>2, AttemptsAssumption DEF Requeue, AttemptsLeft
<1>3. CASE List(p)
  BY <1>3 DEF List
<1>4. CASE ListFails(p) \/ Enter(p) \/ GiveUp(p) \/ PublishFails(p) \/ Quit(p)
  BY <1>4 DEF ListFails, Enter, GiveUp, PublishFails, Quit
<1>5. ASSUME NEW i \in Id, ReadOther(p, i) \/ MisreadOther(p, i) PROVE Nearer(p)
  <2>1. pc'[p] = "scan" /\ pc[p] = "scan" /\ attempt'[p] = attempt[p] /\ i \in todo[p]
    BY <1>5 DEF ReadOther, MisreadOther
  <2>2. todo'[p] = todo[p] \ {i}
    BY <1>5 DEF ReadOther, MisreadOther, Digest
  <2> QED BY <2>1, <2>2
<1>6. CASE Withdraw(p)
  BY <1>6 DEF Withdraw
<1>7. CASE Rejoin(p)
  BY <1>7, AttemptsAssumption DEF Rejoin, AttemptsLeft
<1>8. CASE Retry(p)
  BY <1>8, AttemptsAssumption DEF Retry, AttemptsLeft
<1> QED BY <1>1, <1>2, <1>3, <1>4, <1>5, <1>6, <1>7, <1>8 DEF Call

(* No call goes round for ever, whatever its rivals and the holder do: each of  *)
(* its steps brings it nearer to its end.                                       *)
THEOREM CallsEnd == Spec => [][Nears]_vars
<1>1. IInv /\ [Next]_vars => [Nears]_vars
  BY CallNears DEF Nears
<1> QED BY Invariance, <1>1, PTL DEF Spec
=============================================================================
