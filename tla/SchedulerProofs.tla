--------------------------- MODULE SchedulerProofs --------------------------
(* Proofs about Scheduler, for every number of processes and frames.       *)
EXTENDS Scheduler, TLAPS

-----------------------------------------------------------------------------
(* The queue operations.                                                   *)

\* What rotating the run queue does to its positions.
LEMMA RotateAt ==
    ASSUME NEW S, NEW s \in Seq(S), Len(s) > 0
    PROVE  /\ Rotate(s) \in Seq(S)
           /\ Len(Rotate(s)) = Len(s)
           /\ \A i \in 1..Len(s) :
                Rotate(s)[i] = IF i = Len(s) THEN s[1] ELSE s[i + 1]
  BY DEF Rotate

\* Rotating the run queue keeps it a list of the same processes.
LEMMA RotateLists ==
    ASSUME NEW S, NEW T, NEW s \in Seq(S), Lists(s, T)
    PROVE  Lists(Rotate(s), T)
  <1>1. Len(s) \in Nat /\ Len(s) > 0
    BY DEF Lists
  <1>2. \A i \in 1..Len(s) :
            Rotate(s)[i] = IF i = Len(s) THEN s[1] ELSE s[i + 1]
    BY <1>1, RotateAt
  <1>3. Len(Rotate(s)) = Len(s)
    BY <1>1, RotateAt
  <1>4. ASSUME NEW x \in T
        PROVE  \E i \in 1..Len(s) : Rotate(s)[i] = x
    <2>1. PICK k \in 1..Len(s) : s[k] = x
      BY DEF Lists
    <2>2. CASE k = 1
      BY <2>1, <2>2, <1>1, <1>2
    <2>3. CASE k # 1
      <3>1. k - 1 \in 1..Len(s) /\ k - 1 # Len(s) /\ (k - 1) + 1 = k
        BY <2>3, <1>1
      <3>2. QED
        BY <3>1, <2>1, <1>2
    <2>4. QED
      BY <2>2, <2>3
  <1>5. \A i \in 1..Len(s) : Rotate(s)[i] \in T
    BY <1>1, <1>2 DEF Lists
  <1>6. \A i, j \in 1..Len(s) : Rotate(s)[i] = Rotate(s)[j] => i = j
    BY <1>1, <1>2 DEF Lists
  <1>7. QED
    BY <1>1, <1>3, <1>4, <1>5, <1>6 DEF Lists

\* Appending a new process lists one process more.
LEMMA AppendLists ==
    ASSUME NEW S, NEW T, NEW s \in Seq(S), Lists(s, T), NEW x \in S, x \notin T
    PROVE  Lists(Append(s, x), T \cup {x})
  BY DEF Lists

\* What swap_remove_back does to the positions of the queue.
LEMMA SwapRemoveAt ==
    ASSUME NEW S, NEW s \in Seq(S), NEW k \in 1..Len(s), Len(s) > 1
    PROVE  /\ SwapRemoveBack(s, k) \in Seq(S)
           /\ Len(SwapRemoveBack(s, k)) = Len(s) - 1
           /\ \A i \in 1..(Len(s) - 1) :
                SwapRemoveBack(s, k)[i] = IF i = k THEN s[Len(s)] ELSE s[i]
  <1> DEFINE n == Len(s)
             swapped == [s EXCEPT ![k] = s[n]]
             r == SwapRemoveBack(s, k)
  <1>1. n \in Nat /\ n > 1 /\ DOMAIN s = 1..n /\ s[n] \in S
    OBVIOUS
  <1>2. swapped \in Seq(S) /\ Len(swapped) = n
    BY <1>1
  <1>3. \A i \in 1..n : swapped[i] = IF i = k THEN s[n] ELSE s[i]
    BY <1>1
  <1>4. r = SubSeq(swapped, 1, n - 1)
    BY DEF SwapRemoveBack
  <1> HIDE DEF r, swapped
  <1>5. r \in Seq(S) /\ Len(r) = n - 1
    BY <1>1, <1>2, <1>4
  <1>6. \A i \in 1..(n - 1) : r[i] = IF i = k THEN s[n] ELSE s[i]
    BY <1>1, <1>2, <1>3, <1>4
  <1>7. QED
    BY <1>5, <1>6 DEF r

\* swap_remove_back removes exactly the process at that position.
LEMMA SwapRemoveLists ==
    ASSUME NEW S, NEW T, NEW s \in Seq(S), Lists(s, T),
           NEW k \in 1..Len(s), Len(s) > 1
    PROVE  /\ SwapRemoveBack(s, k) \in Seq(S)
           /\ Lists(SwapRemoveBack(s, k), T \ {s[k]})
  <1> DEFINE n == Len(s)
             r == SwapRemoveBack(s, k)
  <1>1. n \in Nat /\ n > 1 /\ DOMAIN s = 1..n /\ s[n] \in S
    OBVIOUS
  <1>5. r \in Seq(S) /\ Len(r) = n - 1
    BY SwapRemoveAt
  <1>6. \A i \in 1..(n - 1) : r[i] = IF i = k THEN s[n] ELSE s[i]
    BY SwapRemoveAt
  <1> HIDE DEF r
  <1>7. \A i \in 1..(n - 1) : r[i] \in T \ {s[k]}
    BY <1>1, <1>6 DEF Lists
  <1>8. ASSUME NEW x \in T \ {s[k]}
        PROVE  \E i \in 1..(n - 1) : r[i] = x
    <2>1. PICK j \in 1..n : s[j] = x
      BY DEF Lists
    <2>2. j # k
      BY <2>1
    <2>3. CASE j = n
      <3>1. k \in 1..(n - 1)
        BY <2>2, <2>3, <1>1
      <3>2. QED
        BY <3>1, <1>6, <2>1, <2>3
    <2>4. CASE j # n
      <3>1. j \in 1..(n - 1)
        <4>1. n \in Nat /\ j \in 1..n
          BY <1>1
        <4>2. QED
          BY <4>1, <2>4
      <3>2. r[j] = x
        BY <3>1, <1>6, <2>1, <2>2
      <3>3. QED
        BY <3>1, <3>2
    <2>5. QED
      BY <2>3, <2>4
  <1>9. \A i, j \in 1..(n - 1) : r[i] = r[j] => i = j
    BY <1>1, <1>6 DEF Lists
  <1>10. Lists(r, T \ {s[k]})
    BY <1>1, <1>5, <1>7, <1>8, <1>9 DEF Lists
  <1>11. QED
    BY <1>5, <1>10 DEF r

-----------------------------------------------------------------------------
(* The inductive invariant.                                                *)

(* main() starts with one process, not yet running: every part holds.     *)
LEMMA InitIInv == Init => IInv
  <1> SUFFICES ASSUME Init PROVE IInv
    OBVIOUS
  <1> USE SchedulerAssumption
  <1>1. PICK root \in Roots :
            /\ processes = [p \in {1} |->
                    [ppid |-> 0, pgrp |-> 1, root |-> root,
                     paused |-> InitProgram, waiting |-> NotWaiting]]
            /\ spaces = [r \in {root} |->
                    [image |-> InitProgram, result |-> 0]]
    BY DEF Init
  <1>2. DOMAIN processes = {1} /\ DOMAIN spaces = {root}
    BY <1>1
  <1>3. TypeOK
    BY <1>1, <1>2 DEF Init, TypeOK, Process, WaitingState, NotWaiting, Space,
        Images, Panics
  <1>4. QueueMatchesTable
    BY <1>2 DEF Init, QueueMatchesTable, Lists
  <1>5. PidsAreFresh /\ SpacesMatchTable
    BY <1>1, <1>2 DEF Init, PidsAreFresh, SpacesMatchTable
  <1>6. ContextMatchesSpace /\ AnswersReachCaller
    BY <1>1, <1>2 DEF Init, ContextMatchesSpace, AnswersReachCaller
  <1>7. QED
    BY <1>3, <1>4, <1>5, <1>6 DEF Init, IInv, UserRunsInItsOwnSpace,
        NoDeafSpin, LockNeverContended

\* In every state of the invariant there is a current process.
LEMMA CurrentInTable ==
    ASSUME IInv
    PROVE  /\ current_pid \in DOMAIN processes
           /\ current \in Process
           /\ current.root \in DOMAIN spaces
  <1>1. order \in Seq(Nat \ {0}) /\ Len(order) > 0
    BY DEF IInv, QueueMatchesTable, Lists, TypeOK
  <1>2. 1 \in 1..Len(order)
    BY <1>1
  <1>3. current_pid \in DOMAIN processes
    BY <1>2 DEF IInv, QueueMatchesTable, Lists, current_pid
  <1>4. QED
    BY <1>3 DEF IInv, TypeOK, SpacesMatchTable, current

\* Leaving user mode by yield, wait, read or the timer.
LEMMA SaveAndSwitchIInv ==
    ASSUME IInv, Running, NEW w \in WaitingState, NEW b \in BOOLEAN,
           SaveAndSwitch(w, b), w.kind # "AmZombie",
           b = FALSE => w.kind = "None"
    PROVE  IInv'
  <1> DEFINE c == current_pid
  <1>1. /\ c \in DOMAIN processes
        /\ processes[c] \in Process
        /\ processes[c].root \in DOMAIN spaces
    BY CurrentInTable DEF current
  <1>2. /\ ~locked /\ image = spaces[processes[c].root].image
    BY DEF IInv, UserRunsInItsOwnSpace, Running, current
  <1>3. /\ mode' = "sched" /\ locked' = TRUE /\ intr' = b
        /\ processes' = [processes EXCEPT ![c].paused = image,
                                          ![c].waiting = w]
        /\ UNCHANGED <<order, next_free_pid, spaces, cr3, image, input, due>>
    BY <1>2 DEF SaveAndSwitch, EnterScheduler
  <1> HIDE DEF c
  <1>4. DOMAIN processes' = DOMAIN processes
    BY <1>3
  <1>5. \A p \in DOMAIN processes :
            /\ processes'[p].root = processes[p].root
            /\ processes'[p].ppid = processes[p].ppid
            /\ p # c => processes'[p] = processes[p]
    BY <1>1, <1>3 DEF IInv, TypeOK, Process
  <1>6. processes'[c].paused = image /\ processes'[c].waiting = w
    BY <1>1, <1>3 DEF IInv, TypeOK, Process
  <1>7. TypeOK'
    BY <1>1, <1>3, <1>4, <1>5 DEF IInv, TypeOK, Process, Panics
  <1>8. QueueMatchesTable'
    BY <1>3, <1>4 DEF IInv, QueueMatchesTable
  <1>9. PidsAreFresh' /\ SpacesMatchTable'
    BY <1>3, <1>4, <1>5 DEF IInv, PidsAreFresh, SpacesMatchTable
  <1>10. ContextMatchesSpace'
    BY <1>1, <1>2, <1>3, <1>4, <1>5, <1>6
       DEF IInv, ContextMatchesSpace, Running, c
  <1>11. AnswersReachCaller'
    BY <1>3, <1>4, <1>5 DEF IInv, AnswersReachCaller
  <1>12. NoDeafSpin'
    BY <1>1, <1>3, <1>4, <1>6 DEF NoDeafSpin
  <1>13. QED
    BY <1>3, <1>7, <1>8, <1>9, <1>10, <1>11, <1>12
       DEF IInv, UserRunsInItsOwnSpace, LockNeverContended

\* exit.
LEMMA HaltIInv ==
    ASSUME IInv, NEW code \in ExitCodes, syscall_halt(code)
    PROVE  IInv'
  <1> DEFINE c == current_pid
             w == [kind |-> "AmZombie", arg |-> code, ok |-> TRUE]
  <1>1. /\ c \in DOMAIN processes
        /\ processes[c] \in Process
    BY CurrentInTable DEF current
  <1>2. ~locked
    BY DEF IInv, UserRunsInItsOwnSpace, Running, syscall_halt
  <1>3. /\ mode' = "sched" /\ locked' = TRUE /\ intr' = TRUE
        /\ processes' = [processes EXCEPT ![c].waiting = w]
        /\ UNCHANGED <<order, next_free_pid, spaces, cr3, image, input, due>>
    BY <1>2 DEF syscall_halt, EnterScheduler
  <1>4. w \in WaitingState /\ w.kind = "AmZombie"
    BY SchedulerAssumption DEF WaitingState
  <1>5. mode = "user"
    BY DEF syscall_halt, Running
  <1> HIDE DEF c, w
  <1>6. DOMAIN processes' = DOMAIN processes
    BY <1>3
  <1>7. \A p \in DOMAIN processes :
            /\ processes'[p].root = processes[p].root
            /\ processes'[p].ppid = processes[p].ppid
            /\ p # c => processes'[p] = processes[p]
    BY <1>1, <1>3 DEF IInv, TypeOK, Process
  <1>8. processes'[c].waiting = w /\ processes'[c].paused = processes[c].paused
    BY <1>1, <1>3 DEF IInv, TypeOK, Process
  <1>9. TypeOK'
    BY <1>1, <1>3, <1>4, <1>6, <1>7 DEF IInv, TypeOK, Process, Panics
  <1>10. QueueMatchesTable'
    BY <1>3, <1>6 DEF IInv, QueueMatchesTable
  <1>11. PidsAreFresh' /\ SpacesMatchTable'
    BY <1>3, <1>6, <1>7 DEF IInv, PidsAreFresh, SpacesMatchTable
  <1>12. ContextMatchesSpace'
    BY <1>1, <1>3, <1>4, <1>5, <1>6, <1>7, <1>8
       DEF IInv, ContextMatchesSpace, c
  <1>13. AnswersReachCaller'
    BY <1>3, <1>6, <1>7 DEF IInv, AnswersReachCaller
  <1>14. QED
    BY <1>3, <1>9, <1>10, <1>11, <1>12, <1>13
       DEF IInv, UserRunsInItsOwnSpace, LockNeverContended, NoDeafSpin

\* fork: the child gets a fresh pid, a fresh root and the answer 0.
LEMMA ForkIInv ==
    ASSUME IInv, syscall_fork
    PROVE  IInv'
  <1> DEFINE c == current_pid
             n == next_free_pid
  <1>1. PICK r \in Roots \ DOMAIN spaces :
            PushChild(r, image) /\ AnswerFork(r)
    BY DEF syscall_fork
  <1>2. /\ c \in DOMAIN processes
        /\ processes[c] \in Process
        /\ processes[c].root \in DOMAIN spaces
        /\ c \in Nat \ {0}
    BY CurrentInTable DEF current, IInv, TypeOK
  <1>3. /\ mode = "user" /\ ~locked /\ intr
        /\ cr3 = processes[c].root
        /\ image = spaces[cr3].image
        /\ processes[c].waiting.kind = "None"
    BY DEF IInv, UserRunsInItsOwnSpace, Running, syscall_fork, current
  <1>4. n \in Nat \ {0} /\ n \notin DOMAIN processes /\ c # n
    BY <1>2 DEF IInv, TypeOK, PidsAreFresh
  <1> DEFINE child == [ppid |-> c, pgrp |-> processes[c].pgrp, root |-> r,
                       paused |-> image, waiting |-> NotWaiting]
  <1>5. child \in Process
    BY <1>2 DEF Process, IInv, TypeOK, NotWaiting, WaitingState
  <1>6. /\ child.root = r /\ child.ppid = c /\ child.paused = image
        /\ child.waiting.kind = "None"
    BY DEF NotWaiting
  <1>7. /\ DOMAIN processes' = DOMAIN processes \cup {n}
        /\ processes'[n] = child
        /\ \A p \in DOMAIN processes : processes'[p] = processes[p]
        /\ processes' = [p \in DOMAIN processes \cup {n} |->
                            IF p = n THEN child ELSE processes[p]]
    BY <1>1, <1>4 DEF PushChild, With, current
  <1> HIDE DEF child
  <1>8. /\ order' = Append(order, n)
        /\ next_free_pid' = n + 1
        /\ cr3' = processes[c].root
        /\ UNCHANGED <<locked, mode, intr, image, input>>
    BY <1>1 DEF PushChild, AllocatePid, AnswerFork, current, syscall_fork
  <1> DEFINE mid == With(spaces, r, [spaces[cr3] EXCEPT !.result = 0])
  <1>9. /\ spaces[cr3] \in Space
        /\ mid \in [DOMAIN spaces \cup {r} -> Space]
        /\ mid[r] = [spaces[cr3] EXCEPT !.result = 0]
        /\ \A x \in DOMAIN spaces : mid[x] = spaces[x]
    BY <1>1, <1>2, <1>3 DEF With, IInv, TypeOK, Space
  <1>10. spaces' = [mid EXCEPT ![processes[c].root].result = n]
    BY <1>1 DEF AnswerFork, current
  <1> HIDE DEF mid
  <1>11. /\ DOMAIN spaces' = DOMAIN spaces \cup {r}
         /\ spaces' \in [DOMAIN spaces' -> Space]
         /\ spaces'[r].image = image /\ spaces'[r].result = 0
         /\ spaces'[processes[c].root].image = image
         /\ spaces'[processes[c].root].result = n
         /\ \A x \in DOMAIN spaces :
                x # processes[c].root => spaces'[x] = spaces[x]
    BY <1>1, <1>2, <1>3, <1>4, <1>9, <1>10 DEF Space
  <1>12. /\ due' = With([due EXCEPT ![c] = n], n, 0)
    BY DEF syscall_fork
  <1>13. /\ DOMAIN due' = DOMAIN processes \cup {n}
         /\ due' \in [DOMAIN due' -> Int]
         /\ due'[n] = 0 /\ due'[c] = n
         /\ \A p \in DOMAIN processes : p # c => due'[p] = due[p]
    BY <1>2, <1>4, <1>12 DEF With, IInv, TypeOK
  <1>14. TypeOK'
    BY <1>1, <1>2, <1>4, <1>5, <1>7, <1>8, <1>11, <1>13
       DEF IInv, TypeOK
  <1>15. QueueMatchesTable'
    BY <1>4, <1>7, <1>8, AppendLists DEF IInv, QueueMatchesTable, TypeOK
  <1>16. PidsAreFresh'
    BY <1>2, <1>4, <1>6, <1>7, <1>8 DEF IInv, PidsAreFresh, TypeOK, Process
  <1>17. SpacesMatchTable'
    BY <1>1, <1>6, <1>7, <1>11 DEF IInv, SpacesMatchTable
  <1>18. current_pid' = c
    BY <1>8 DEF current_pid, IInv, TypeOK, QueueMatchesTable, Lists
  <1>19. UserRunsInItsOwnSpace'
    BY <1>2, <1>3, <1>7, <1>8, <1>11, <1>18 DEF UserRunsInItsOwnSpace, current
  <1>20. ContextMatchesSpace'
    BY <1>1, <1>2, <1>3, <1>6, <1>7, <1>8, <1>11, <1>18
       DEF IInv, ContextMatchesSpace, SpacesMatchTable
  <1>21. AnswersReachCaller'
    BY <1>1, <1>2, <1>4, <1>6, <1>7, <1>11, <1>13
       DEF IInv, AnswersReachCaller, SpacesMatchTable
  <1>22. QED
    BY <1>3, <1>8, <1>14, <1>15, <1>16, <1>17, <1>19, <1>20, <1>21
       DEF IInv, LockNeverContended, NoDeafSpin

\* execve: the old space is freed and no other process had it.
LEMMA ExecIInv ==
    ASSUME IInv, NEW program \in Programs, syscall_execve(program)
    PROVE  IInv'
  <1> DEFINE c == current_pid
             old == processes[c].root
             fresh == [image |-> program, result |-> 0]
  <1>1. PICK r \in Roots \ DOMAIN spaces :
            /\ processes' = [processes EXCEPT ![c].root = r,
                                              ![c].paused = program,
                                              ![c].waiting = NotWaiting]
            /\ spaces' = With(Without(spaces, old), r, fresh)
    BY DEF syscall_execve, current, FreeSpace, InitialState
  <1>2. /\ c \in DOMAIN processes
        /\ processes[c] \in Process
        /\ old \in DOMAIN spaces
    BY CurrentInTable DEF current
  <1>3. ~locked /\ mode = "user"
    BY DEF IInv, UserRunsInItsOwnSpace, Running, syscall_execve
  <1>4. /\ mode' = "sched" /\ locked' = TRUE /\ intr' = TRUE
        /\ due' = [due EXCEPT ![c] = 0]
        /\ UNCHANGED <<order, next_free_pid, cr3, image, input>>
    BY <1>3 DEF syscall_execve, EnterScheduler
  <1>5. fresh \in Space /\ fresh.image = program /\ fresh.result = 0
    BY DEF Space, Images
  <1>6. /\ DOMAIN spaces' = (DOMAIN spaces \ {old}) \cup {r}
        /\ spaces'[r] = fresh
        /\ \A x \in DOMAIN spaces \ {old} : spaces'[x] = spaces[x]
        /\ spaces' \in [DOMAIN spaces' -> Space]
    BY <1>1, <1>5 DEF With, Without, IInv, TypeOK
  <1> HIDE DEF fresh
  <1>7. NotWaiting \in WaitingState
    BY DEF NotWaiting, WaitingState
  <1> HIDE DEF c
  <1>8a. program \in Images
    BY DEF Images
  <1>8. /\ DOMAIN processes' = DOMAIN processes
        /\ processes' \in [DOMAIN processes' -> Process]
        /\ processes'[c].root = r /\ processes'[c].paused = program
        /\ processes'[c].ppid = processes[c].ppid
        /\ processes'[c].waiting = NotWaiting
        /\ \A p \in DOMAIN processes : p # c => processes'[p] = processes[p]
    BY <1>1, <1>2, <1>7, <1>8a DEF IInv, TypeOK, Process
  <1>9. \A p \in DOMAIN processes : p # c =>
            processes[p].root \in DOMAIN spaces \ {old} /\ processes[p].root # r
    BY <1>1, <1>2 DEF IInv, SpacesMatchTable
  <1>10. TypeOK'
    BY <1>1, <1>4, <1>6, <1>8 DEF IInv, TypeOK
  <1>11. QueueMatchesTable'
    BY <1>4, <1>8 DEF IInv, QueueMatchesTable
  <1>12. PidsAreFresh'
    BY <1>4, <1>8 DEF IInv, PidsAreFresh
  <1>13. SpacesMatchTable'
    BY <1>1, <1>2, <1>6, <1>8, <1>9 DEF IInv, SpacesMatchTable
  <1>14. ContextMatchesSpace'
    BY <1>2, <1>3, <1>5, <1>6, <1>8, <1>9 DEF IInv, ContextMatchesSpace, c
  <1>15. AnswersReachCaller'
    BY <1>2, <1>4, <1>5, <1>6, <1>8, <1>9 DEF IInv, AnswersReachCaller, TypeOK
  <1>16. QED
    BY <1>4, <1>10, <1>11, <1>12, <1>13, <1>14, <1>15
       DEF IInv, UserRunsInItsOwnSpace, LockNeverContended, NoDeafSpin

\* The process an iteration of run_next_task polls.
LEMMA PolledInTable ==
    ASSUME IInv
    PROVE  /\ Rotate(order) \in Seq(Nat \ {0})
           /\ Lists(Rotate(order), DOMAIN processes)
           /\ Len(Rotate(order)) > 0
           /\ Polled \in DOMAIN processes
           /\ processes[Polled] \in Process
           /\ processes[Polled].root \in DOMAIN spaces
  <1>1. order \in Seq(Nat \ {0}) /\ Lists(order, DOMAIN processes)
    BY DEF IInv, QueueMatchesTable, TypeOK
  <1>2. Len(order) > 0
    BY <1>1 DEF Lists
  <1>3. Rotate(order) \in Seq(Nat \ {0}) /\ Lists(Rotate(order), DOMAIN processes)
    BY <1>1, <1>2, RotateLists, RotateAt
  <1>4. 1 \in 1..Len(Rotate(order))
    BY <1>3 DEF Lists
  <1>5. Polled \in DOMAIN processes
    BY <1>3, <1>4 DEF Lists, Polled
  <1>6. QED
    BY <1>3, <1>5 DEF IInv, TypeOK, SpacesMatchTable, Lists

\* Iterations that change nothing but the queue, CR3 and possibly the mode.
LEMMA RotateIInv ==
    ASSUME IInv, order' = Rotate(order), cr3' = processes[Polled].root,
           mode = "sched", mode' \in {"sched", "badcall"},
           UNCHANGED <<processes, next_free_pid, locked, spaces, intr, image,
                       input, due>>
    PROVE  IInv'
  <1>1. TypeOK'
    BY PolledInTable DEF IInv, TypeOK, Panics, SpacesMatchTable
  <1>2. QueueMatchesTable'
    BY PolledInTable DEF IInv, QueueMatchesTable
  <1>3. PidsAreFresh' /\ SpacesMatchTable' /\ AnswersReachCaller'
    BY DEF IInv, PidsAreFresh, SpacesMatchTable, AnswersReachCaller
  <1>4. ContextMatchesSpace'
    BY DEF IInv, ContextMatchesSpace
  <1>5. QED
    BY <1>1, <1>2, <1>3, <1>4
       DEF IInv, UserRunsInItsOwnSpace, LockNeverContended, NoDeafSpin

\* The switch to user mode.
LEMMA StartUserlandIInv ==
    ASSUME IInv, StartUserland
    PROVE  IInv'
  <1>1. /\ mode = "sched" /\ processes[Polled].waiting.kind = "None"
        /\ cr3' = processes[Polled].root
        /\ order' = Rotate(order)
        /\ mode' = "user" /\ intr' = TRUE /\ locked' = FALSE
        /\ image' = processes[Polled].paused
        /\ UNCHANGED <<processes, next_free_pid, spaces, input, due>>
    BY DEF StartUserland, Polling
  <1>2. current_pid' = Polled
    BY <1>1 DEF current_pid, Polled
  <1>3. image' = spaces[processes[Polled].root].image
    BY <1>1, PolledInTable DEF IInv, ContextMatchesSpace
  <1>4. TypeOK'
    BY <1>1, PolledInTable DEF IInv, TypeOK, Process
  <1>5. QueueMatchesTable'
    BY <1>1, PolledInTable DEF QueueMatchesTable
  <1>6. PidsAreFresh' /\ SpacesMatchTable' /\ AnswersReachCaller'
    BY <1>1 DEF IInv, PidsAreFresh, SpacesMatchTable, AnswersReachCaller
  <1>7. ContextMatchesSpace'
    BY <1>1 DEF IInv, ContextMatchesSpace
  <1>8. UserRunsInItsOwnSpace'
    BY <1>1, <1>2, <1>3 DEF UserRunsInItsOwnSpace, current
  <1>9. QED
    BY <1>1, <1>4, <1>5, <1>6, <1>7, <1>8
       DEF IInv, LockNeverContended, NoDeafSpin

\* A read completes: its length is stored under the reader's own CR3.
LEMMA PollReadLineIInv ==
    ASSUME IInv, PollReadLine
    PROVE  IInv'
  <1> DEFINE p == Polled
             pr == processes[p].root
  <1>1. /\ mode = "sched" /\ cr3' = pr
        /\ order' = Rotate(order)
        /\ input \in Nat /\ input > 0 /\ input' = input - 1
        /\ spaces' = [spaces EXCEPT ![pr].result = ReadLen]
        /\ due' = [due EXCEPT ![p] = ReadLen]
        /\ processes' = [processes EXCEPT ![p].waiting = NotWaiting]
        /\ UNCHANGED <<next_free_pid, locked, mode, intr, image>>
    BY DEF PollReadLine, Polling, Answer, IInv, TypeOK
  <1>2. /\ p \in DOMAIN processes /\ processes[p] \in Process
        /\ pr \in DOMAIN spaces
    BY PolledInTable
  <1>3. processes[p].waiting.kind = "WaitingRead"
    BY DEF PollReadLine, Polling
  <1> HIDE DEF p
  <1>4. /\ NotWaiting \in WaitingState /\ NotWaiting.kind = "None"
        /\ ReadLen \in Int
    BY SchedulerAssumption DEF NotWaiting, WaitingState
  <1>5. /\ DOMAIN processes' = DOMAIN processes
        /\ processes' \in [DOMAIN processes' -> Process]
        /\ processes'[p].waiting = NotWaiting
        /\ \A q \in DOMAIN processes :
              /\ processes'[q].root = processes[q].root
              /\ processes'[q].ppid = processes[q].ppid
              /\ processes'[q].paused = processes[q].paused
              /\ q # p => processes'[q] = processes[q]
    BY <1>1, <1>2, <1>4 DEF IInv, TypeOK, Process
  <1>6. /\ DOMAIN spaces' = DOMAIN spaces
        /\ spaces' \in [DOMAIN spaces' -> Space]
        /\ spaces'[pr].result = ReadLen
        /\ \A x \in DOMAIN spaces :
              /\ spaces'[x].image = spaces[x].image
              /\ x # pr => spaces'[x] = spaces[x]
    BY <1>1, <1>2, <1>4 DEF IInv, TypeOK, Space
  <1>7. \A q \in DOMAIN processes : q # p => processes[q].root # pr
    BY <1>2 DEF IInv, SpacesMatchTable
  <1>8. TypeOK'
    BY <1>1, <1>2, <1>4, <1>5, <1>6, PolledInTable
       DEF IInv, TypeOK
  <1>9. QueueMatchesTable'
    BY <1>1, <1>5, PolledInTable DEF QueueMatchesTable
  <1>10. PidsAreFresh' /\ SpacesMatchTable'
    BY <1>1, <1>5, <1>6 DEF IInv, PidsAreFresh, SpacesMatchTable
  <1>11. ContextMatchesSpace'
    BY <1>1, <1>2, <1>3, <1>5, <1>6
       DEF IInv, ContextMatchesSpace, SpacesMatchTable
  <1>12. AnswersReachCaller'
    BY <1>1, <1>2, <1>5, <1>6, <1>7
       DEF IInv, AnswersReachCaller, SpacesMatchTable, TypeOK
  <1>13. NoDeafSpin'
    BY <1>2, <1>4, <1>5 DEF NoDeafSpin
  <1>14. QED
    BY <1>1, <1>8, <1>9, <1>10, <1>11, <1>12, <1>13
       DEF IInv, UserRunsInItsOwnSpace, LockNeverContended

\* A zombie child is collected: the parent is answered, the child leaves the
\* table, the queue and memory, and nobody else is touched.
LEMMA ReapIInv ==
    ASSUME IInv, Polling("WaitingChild"), NEW c \in Collectable(Polled), Reap(c)
    PROVE  IInv'
  <1> DEFINE p == Polled
             pr == processes[p].root
             cr == processes[c].root
             code == processes[c].waiting.arg
             rot == Rotate(order)
             k == IndexOf(rot, c)
             mid == [processes EXCEPT ![p].waiting = NotWaiting]
             mids == [spaces EXCEPT ![pr].result = code]
  <1>1. /\ mode = "sched" /\ cr3' = pr
        /\ processes[p].waiting.kind = "WaitingChild"
        /\ processes' = Without(mid, c)
        /\ spaces' = Without(mids, cr)
        /\ due' = Without([due EXCEPT ![p] = code], c)
        /\ order' = SwapRemoveBack(rot, k)
        /\ UNCHANGED <<next_free_pid, locked, mode, intr, image, input>>
    BY DEF Polling, Reap, FreeSpace
  <1>2. /\ p \in DOMAIN processes /\ processes[p] \in Process
        /\ pr \in DOMAIN spaces
        /\ rot \in Seq(Nat \ {0}) /\ Lists(rot, DOMAIN processes)
    BY PolledInTable
  <1>3. /\ c \in DOMAIN processes /\ processes[c].waiting.kind = "AmZombie"
        /\ c # p
    BY <1>1 DEF Collectable
  <1>4. processes[c] \in Process /\ cr \in DOMAIN spaces /\ code \in Int
    BY <1>3 DEF IInv, TypeOK, SpacesMatchTable, Process, WaitingState
  <1>5. k \in 1..Len(rot) /\ rot[k] = c
    <2>1. \E i \in 1..Len(rot) : rot[i] = c
      BY <1>2, <1>3 DEF Lists
    <2>2. QED
      BY <2>1 DEF IndexOf
  <1>6. rot[1] = p
    BY DEF Polled
  <1> HIDE DEF rot, k, p, code
  <1>7. Len(rot) > 1
    BY <1>2, <1>3, <1>5, <1>6 DEF Lists
  <1>8. /\ order' \in Seq(Nat \ {0})
        /\ Lists(order', DOMAIN processes \ {c})
    BY <1>1, <1>2, <1>5, <1>7, SwapRemoveLists
  <1>9. NotWaiting \in WaitingState /\ NotWaiting.kind = "None"
    BY DEF NotWaiting, WaitingState
  <1>10. /\ DOMAIN mid = DOMAIN processes
         /\ mid \in [DOMAIN processes -> Process]
         /\ mid[p].waiting = NotWaiting
         /\ \A q \in DOMAIN processes :
              /\ mid[q].root = processes[q].root
              /\ mid[q].ppid = processes[q].ppid
              /\ mid[q].paused = processes[q].paused
              /\ q # p => mid[q] = processes[q]
    BY <1>2, <1>9 DEF IInv, TypeOK, Process
  <1>11. /\ DOMAIN mids = DOMAIN spaces
         /\ mids \in [DOMAIN spaces -> Space]
         /\ mids[pr].result = code
         /\ \A x \in DOMAIN spaces :
              /\ mids[x].image = spaces[x].image
              /\ x # pr => mids[x] = spaces[x]
    BY <1>2, <1>4 DEF IInv, TypeOK, Space
  <1> HIDE DEF mid, mids
  <1>12. /\ DOMAIN processes' = DOMAIN processes \ {c}
         /\ processes' \in [DOMAIN processes' -> Process]
         /\ \A q \in DOMAIN processes \ {c} : processes'[q] = mid[q]
    BY <1>1, <1>10 DEF Without
  <1>13. /\ DOMAIN spaces' = DOMAIN spaces \ {cr}
         /\ spaces' \in [DOMAIN spaces' -> Space]
         /\ \A x \in DOMAIN spaces \ {cr} : spaces'[x] = mids[x]
    BY <1>1, <1>11 DEF Without
  <1>14. /\ DOMAIN due' = DOMAIN processes \ {c}
         /\ due' \in [DOMAIN due' -> Int]
         /\ due'[p] = code
         /\ \A q \in DOMAIN processes \ {c} : q # p => due'[q] = due[q]
    BY <1>1, <1>2, <1>3, <1>4 DEF Without, IInv, TypeOK
  <1>15. \A q, s \in DOMAIN processes :
            /\ processes[q].root \in DOMAIN spaces
            /\ processes[q].root = processes[s].root => q = s
    BY DEF IInv, SpacesMatchTable
  <1>16. TypeOK'
    BY <1>1, <1>2, <1>8, <1>12, <1>13, <1>14 DEF IInv, TypeOK
  <1>17. QueueMatchesTable'
    BY <1>8, <1>12 DEF QueueMatchesTable
  <1>18. PidsAreFresh'
    BY <1>1, <1>10, <1>12 DEF IInv, PidsAreFresh
  <1>19. SpacesMatchTable'
    BY <1>3, <1>10, <1>12, <1>13, <1>15 DEF IInv, SpacesMatchTable
  <1>20. ContextMatchesSpace'
    <2> SUFFICES ASSUME NEW q \in DOMAIN processes'
                 PROVE  processes'[q].paused = spaces'[processes'[q].root].image
      BY DEF ContextMatchesSpace
    <2>1. /\ q \in DOMAIN processes /\ q # c /\ processes[q].root # cr
          /\ processes[q].root \in DOMAIN spaces
      BY <1>3, <1>12, <1>15
    <2>2. /\ processes'[q].paused = processes[q].paused
          /\ processes'[q].root = processes[q].root
          /\ spaces'[processes[q].root].image = spaces[processes[q].root].image
      BY <2>1, <1>10, <1>11, <1>12, <1>13
    <2>3. QED
      BY <2>1, <2>2 DEF IInv, ContextMatchesSpace
  <1>21. AnswersReachCaller'
    <2> SUFFICES ASSUME NEW q \in DOMAIN processes'
                 PROVE  spaces'[processes'[q].root].result = due'[q]
      BY DEF AnswersReachCaller
    <2>1. /\ q \in DOMAIN processes /\ q # c /\ processes[q].root # cr
          /\ processes[q].root \in DOMAIN spaces
          /\ processes'[q].root = processes[q].root
          /\ spaces'[processes[q].root] = mids[processes[q].root]
      BY <1>3, <1>10, <1>12, <1>13, <1>15
    <2>2. CASE q = p
      BY <2>1, <2>2, <1>11, <1>14
    <2>3. CASE q # p
      BY <2>1, <2>3, <1>2, <1>11, <1>14, <1>15 DEF IInv, AnswersReachCaller
    <2>4. QED
      BY <2>2, <2>3
  <1>22. NoDeafSpin'
    BY <1>2, <1>3, <1>9, <1>10, <1>12 DEF NoDeafSpin
  <1>23. QED
    BY <1>1, <1>16, <1>17, <1>18, <1>19, <1>20, <1>21, <1>22
       DEF IInv, UserRunsInItsOwnSpace, LockNeverContended

\* A panic changes nothing but the mode.
LEMMA PanicIInv ==
    ASSUME IInv, mode = "user", NEW why \in {"oom", "badcall"}, Panic(why)
    PROVE  IInv'
  <1>1. /\ mode' = why
        /\ UNCHANGED <<processes, order, next_free_pid, locked, spaces, cr3,
                       intr, image, input, due>>
    BY DEF Panic
  <1>2. TypeOK' /\ QueueMatchesTable' /\ PidsAreFresh' /\ SpacesMatchTable'
    BY <1>1 DEF IInv, TypeOK, Panics, QueueMatchesTable, PidsAreFresh,
        SpacesMatchTable
  <1>3. AnswersReachCaller' /\ ContextMatchesSpace'
    BY <1>1 DEF IInv, AnswersReachCaller, ContextMatchesSpace
  <1>4. QED
    BY <1>1, <1>2, <1>3
       DEF IInv, UserRunsInItsOwnSpace, NoDeafSpin, LockNeverContended

\* The invariant is inductive.
LEMMA NextIInv == IInv /\ [Next]_vars => IInv'
  <1> SUFFICES ASSUME IInv, [Next]_vars PROVE IInv'
    OBVIOUS
  <1>1. NotWaiting \in WaitingState /\ NotWaiting.kind = "None"
    BY DEF NotWaiting, WaitingState
  <1>2. CASE syscall_yield
    BY <1>1, <1>2, SaveAndSwitchIInv DEF syscall_yield
  <1>3. CASE \E pid \in WaitArgs, ok \in BOOLEAN : syscall_wait(pid, ok)
    <2>1. PICK pid \in WaitArgs, ok \in BOOLEAN : syscall_wait(pid, ok)
      BY <1>3
    <2> DEFINE w == [kind |-> "WaitingChild", arg |-> pid, ok |-> ok]
    <2>2. w \in WaitingState /\ w.kind = "WaitingChild"
      BY SchedulerAssumption DEF WaitingState
    <2>3. Running /\ SaveAndSwitch(w, TRUE)
      BY <2>1 DEF syscall_wait
    <2> HIDE DEF w
    <2>4. QED
      BY <2>2, <2>3, SaveAndSwitchIInv
  <1>4. CASE \E ok \in BOOLEAN : syscall_read_fd(ok)
    <2>1. PICK ok \in BOOLEAN : syscall_read_fd(ok)
      BY <1>4
    <2> DEFINE w == [kind |-> "WaitingRead", arg |-> 0, ok |-> ok]
    <2>2. w \in WaitingState /\ w.kind = "WaitingRead"
      BY DEF WaitingState
    <2>3. Running /\ SaveAndSwitch(w, TRUE)
      BY <2>1 DEF syscall_read_fd
    <2> HIDE DEF w
    <2>4. QED
      BY <2>2, <2>3, SaveAndSwitchIInv
  <1>5. CASE \E exit_code \in ExitCodes : syscall_halt(exit_code)
    BY <1>5, HaltIInv
  <1>6. CASE syscall_fork
    BY <1>6, ForkIInv
  <1>7. CASE \E program \in Programs : syscall_execve(program)
    BY <1>7, ExecIInv
  <1>8. CASE OutOfFrames \/ FatalSyscall
    BY <1>8, PanicIInv DEF OutOfFrames, FatalSyscall, Running
  <1>9. CASE TimerInterrupt
    <2>1. CASE mode = "user" /\ SaveAndSwitch(NotWaiting, FALSE)
      BY <2>1, <1>1, SaveAndSwitchIInv DEF Running
    <2>2. CASE UNCHANGED vars
      BY <2>2 DEF vars, IInv, TypeOK, QueueMatchesTable, PidsAreFresh,
          SpacesMatchTable, UserRunsInItsOwnSpace, ContextMatchesSpace,
          AnswersReachCaller, NoDeafSpin, LockNeverContended, current,
          current_pid
    <2>3. QED
      BY <1>9, <2>1, <2>2 DEF TimerInterrupt
  <1>10. CASE KeyboardInterrupt
    BY <1>10 DEF KeyboardInterrupt, IInv, TypeOK, QueueMatchesTable,
        PidsAreFresh, SpacesMatchTable, UserRunsInItsOwnSpace,
        ContextMatchesSpace, AnswersReachCaller, NoDeafSpin,
        LockNeverContended, current, current_pid
  <1>11. CASE StartUserland
    BY <1>11, StartUserlandIInv
  <1>12. CASE PollZombie \/ PollReadNothing \/ PollChildNothing
    BY <1>12, RotateIInv
       DEF PollZombie, PollReadNothing, PollChildNothing, Polling, DoNothing
  <1>13. CASE PollRefused
    BY <1>13, RotateIInv DEF PollRefused, Polling
  <1>14. CASE PollReadLine
    BY <1>14, PollReadLineIInv
  <1>15. CASE PollChildReap
    BY <1>15, ReapIInv DEF PollChildReap
  <1>16. CASE UNCHANGED vars
    BY <1>16 DEF vars, IInv, TypeOK, QueueMatchesTable, PidsAreFresh,
        SpacesMatchTable, UserRunsInItsOwnSpace, ContextMatchesSpace,
        AnswersReachCaller, NoDeafSpin, LockNeverContended, current,
        current_pid
  <1>17. QED
    BY <1>2, <1>3, <1>4, <1>5, <1>6, <1>7, <1>8, <1>9, <1>10, <1>11, <1>12,
       <1>13, <1>14, <1>15, <1>16
       DEF Next, Syscall, run_next_task, LoopHlt

-----------------------------------------------------------------------------
(* The theorems.                                                           *)

\* Every reachable state satisfies the inductive invariant.
THEOREM Invariance == Spec => []IInv
  BY InitIInv, NextIInv, PTL DEF Spec

\* The state of the scheduler is well typed.
THEOREM TypeCorrect == Spec => []TypeOK
  BY Invariance, PTL DEF IInv

\* The run queue lists exactly the processes of the table, each once; they
\* have allocated, pairwise different address spaces, and none is leaked.
THEOREM TableCorrect == Spec => []TableConsistent
<1>1. IInv => TableConsistent
  BY DEF IInv, TableConsistent
<1> QED BY <1>1, Invariance, PTL

\* Every answer is stored in the address space of the process it is owed to.
THEOREM AnswersCorrect == Spec => []AnswersReachCaller
  BY Invariance, PTL DEF IInv

\* User code runs only in the current process's own address space, and every
\* process will resume with the registers of the program in its space.
THEOREM RunsAsItselfCorrect == Spec => []RunsAsItself
<1>1. IInv => RunsAsItself
  BY DEF IInv, RunsAsItself
<1> QED BY <1>1, Invariance, PTL

\* The scheduling loop spins with interrupts off only if it will find a
\* process to run, and the queue's lock is never asked for while held.
THEOREM LoopCorrect == Spec => []LoopStaysAlive
<1>1. IInv => LoopStaysAlive
  BY DEF IInv, LoopStaysAlive
<1> QED BY <1>1, Invariance, PTL

-----------------------------------------------------------------------------
(* Round robin, as an action property.                                     *)

\* A rotation moves every process that waits one place forward.
LEMMA RotateKeepsPlaces ==
    ASSUME IInv, order' = Rotate(order)
    PROVE  KeepsPlaces
  <1>1. order \in Seq(Nat \ {0}) /\ Len(order) > 0 /\ Len(order) \in Nat
    BY DEF IInv, TypeOK, QueueMatchesTable, Lists
  <1>2. /\ order' \in Seq(Nat \ {0}) /\ Len(order') = Len(order)
        /\ \A i \in 1..Len(order) :
              order'[i] = IF i = Len(order) THEN order[1] ELSE order[i + 1]
    BY <1>1, RotateAt
  <1> SUFFICES ASSUME NEW i \in 2..Len(order)
               PROVE  \E j \in 1..i : j \in DOMAIN order' /\ order'[j] = order[i]
    BY DEF KeepsPlaces
  <1>3. i - 1 \in 1..i /\ i - 1 \in 1..Len(order) /\ i - 1 # Len(order) /\ (i - 1) + 1 = i
    BY <1>1
  <1>4. DOMAIN order' = 1..Len(order)
    BY <1>2
  <1> QED BY <1>2, <1>3, <1>4

\* swap_remove_back moves only the process that just ran, to where the collected
\* child stood.
LEMMA ReapKeepsPlaces ==
    ASSUME IInv, Polling("WaitingChild"), NEW c \in Collectable(Polled), Reap(c)
    PROVE  KeepsPlaces
  <1> DEFINE rot == Rotate(order)
             k == IndexOf(rot, c)
             n == Len(order)
  <1>1. order \in Seq(Nat \ {0}) /\ n > 0 /\ n \in Nat
    BY DEF IInv, TypeOK, QueueMatchesTable, Lists
  <1>2. /\ rot \in Seq(Nat \ {0}) /\ Len(rot) = n /\ Lists(rot, DOMAIN processes)
        /\ \A i \in 1..n : rot[i] = IF i = n THEN order[1] ELSE order[i + 1]
    BY <1>1, RotateAt, PolledInTable
  <1>3. /\ c \in DOMAIN processes /\ c \notin DOMAIN processes'
        /\ order' = SwapRemoveBack(rot, k)
    BY DEF Collectable, Reap, Without
  <1>4. k \in 1..n /\ rot[k] = c
    <2>1. \E i \in 1..Len(rot) : rot[i] = c
      BY <1>2, <1>3 DEF Lists
    <2> QED BY <1>2, <2>1 DEF IndexOf
  <1> HIDE DEF rot, k, n
  <1>5. n > 1
    <2>1. rot[1] = Polled /\ Polled \in DOMAIN processes /\ Polled # c
      BY PolledInTable DEF rot, Polled, Polling, Collectable
    <2> QED BY <1>1, <1>4, <2>1
  <1>6. order' \in Seq(Nat \ {0}) /\ Len(order') = n - 1
    BY <1>2, <1>3, <1>4, <1>5, SwapRemoveAt
  <1>7. \A i \in 1..(n - 1) : i # k => order'[i] = rot[i]
    BY <1>2, <1>3, <1>4, <1>5, SwapRemoveAt
  <1>8. DOMAIN order' = 1..(n - 1)
    BY <1>6
  <1> SUFFICES ASSUME NEW i \in 2..n, order[i] \in DOMAIN processes'
               PROVE  \E j \in 1..i : j \in DOMAIN order' /\ order'[j] = order[i]
    BY DEF KeepsPlaces, n
  <1>9. /\ i - 1 \in 1..i /\ i - 1 \in 1..(n - 1) /\ i - 1 \in 1..n /\ i - 1 # n
        /\ (i - 1) + 1 = i
    BY <1>1
  <1>10. rot[i - 1] = order[i]
    BY <1>2, <1>9
  <1>11. i - 1 # k
    BY <1>3, <1>4, <1>10
  <1> QED BY <1>7, <1>8, <1>9, <1>10, <1>11

\* fork queues the child behind everybody else.
LEMMA ForkKeepsPlaces ==
    ASSUME IInv, syscall_fork
    PROVE  KeepsPlaces
  <1>1. order \in Seq(Nat \ {0}) /\ next_free_pid \in Nat \ {0}
    BY DEF IInv, TypeOK
  <1>2. order' = Append(order, next_free_pid)
    BY DEF syscall_fork, PushChild
  <1>3. /\ 1..Len(order) \subseteq DOMAIN order'
        /\ \A i \in 1..Len(order) : order'[i] = order[i]
    BY <1>1, <1>2
  <1>4. \A i \in 2..Len(order) : i \in 1..i /\ i \in 1..Len(order)
    BY <1>1
  <1> QED BY <1>3, <1>4 DEF KeepsPlaces

\* scheduling.rs: in no step does a process that waits in the queue fall back,
\* although swap_remove_back moves the last process of the queue forward.
THEOREM OvertakingCorrect == Spec => NoOvertaking
<1>1. IInv /\ [Next]_vars => [KeepsPlaces]_order
  <2> SUFFICES ASSUME IInv, [Next]_vars PROVE KeepsPlaces \/ UNCHANGED order
    OBVIOUS
  <2>1. CASE syscall_fork
    BY <2>1, ForkKeepsPlaces
  <2>2. CASE Syscall /\ ~syscall_fork
    BY <2>2 DEF Syscall, syscall_yield, syscall_wait, syscall_read_fd, syscall_halt,
        syscall_execve, OutOfFrames, FatalSyscall, Panic, SaveAndSwitch
  <2>3. CASE TimerInterrupt \/ KeyboardInterrupt \/ LoopHlt \/ UNCHANGED vars
    BY <2>3 DEF TimerInterrupt, KeyboardInterrupt, LoopHlt, SaveAndSwitch, vars
  <2>4. CASE PollChildReap
    BY <2>4, ReapKeepsPlaces DEF PollChildReap
  <2>5. CASE run_next_task /\ ~PollChildReap
    BY <2>5, RotateKeepsPlaces DEF run_next_task, StartUserland, PollZombie, PollRefused,
        PollReadNothing, PollReadLine, PollChildNothing, DoNothing
  <2> QED BY <2>1, <2>2, <2>3, <2>4, <2>5 DEF Next
<1> QED BY <1>1, Invariance, PTL DEF Spec, NoOvertaking

-----------------------------------------------------------------------------
(* The process table implements the life cycle of ProcessLifecycle.        *)

\* The abstract status and parent of a pid, before and after a step.
LEMMA StatusCases ==
    ASSUME NEW p \in Nat
    PROVE  /\ p \in DOMAIN processes =>
                /\ ParentOf(p) = processes[p].ppid
                /\ processes[p].waiting.kind = "None" => StatusOf(p) = "running"
                /\ processes[p].waiting.kind = "AmZombie" => StatusOf(p) = "zombie"
                /\ processes[p].waiting.kind \in {"WaitingRead", "WaitingChild"}
                     => StatusOf(p) = "blocked"
           /\ p \notin DOMAIN processes =>
                /\ ParentOf(p) = 0
                /\ StatusOf(p) = IF p < next_free_pid THEN "gone" ELSE "unborn"
  BY DEF StatusOf, ParentOf

\* The same after a step.
LEMMA StatusCasesAfter ==
    ASSUME NEW p \in Nat
    PROVE  /\ p \in DOMAIN processes' =>
                /\ ParentOf(p)' = processes'[p].ppid
                /\ processes'[p].waiting.kind = "None" => StatusOf(p)' = "running"
                /\ processes'[p].waiting.kind = "AmZombie" => StatusOf(p)' = "zombie"
                /\ processes'[p].waiting.kind \in {"WaitingRead", "WaitingChild"}
                     => StatusOf(p)' = "blocked"
           /\ p \notin DOMAIN processes' =>
                /\ ParentOf(p)' = 0
                /\ StatusOf(p)' = IF p < next_free_pid' THEN "gone" ELSE "unborn"
  BY DEF StatusOf, ParentOf

\* A step that leaves a pid's entry alone, and does not hand out that pid, is
\* invisible to the life cycle of that pid.
LEMMA SameLife ==
    ASSUME NEW p \in Nat,
           p \in DOMAIN processes' <=> p \in DOMAIN processes,
           p \in DOMAIN processes =>
              /\ processes'[p].ppid = processes[p].ppid
              /\ processes'[p].waiting.kind = processes[p].waiting.kind,
           p < next_free_pid' <=> p < next_free_pid
    PROVE  StatusOf(p)' = StatusOf(p) /\ ParentOf(p)' = ParentOf(p)
  BY DEF StatusOf, ParentOf

\* Every pid of the table is one the abstract specification knows.
LEMMA PidsKnown ==
    ASSUME IInv, PidsInBound, NEW p \in DOMAIN processes
    PROVE  p \in 1..MaxPid /\ p \in Nat
  BY SchedulerAssumption DEF IInv, TypeOK, PidsAreFresh, PidsInBound

\* A step that changes the waiting state of at most one process, and creates and
\* removes none, moves at most that process in the abstract specification.
LEMMA OneMoves ==
    ASSUME IInv, PidsInBound, NEW c \in DOMAIN processes,
           DOMAIN processes' = DOMAIN processes, UNCHANGED next_free_pid,
           \A p \in DOMAIN processes :
              /\ processes'[p].ppid = processes[p].ppid
              /\ p # c => processes'[p].waiting.kind = processes[p].waiting.kind
    PROVE  /\ c \in 1..MaxPid /\ c \in Nat
           /\ life_status[c] = StatusOf(c)
           /\ life_status' = [life_status EXCEPT ![c] = StatusOf(c)']
           /\ life_parent' = life_parent
  <1>1. c \in 1..MaxPid /\ c \in Nat /\ MaxPid \in Nat
    BY PidsKnown, SchedulerAssumption
  <1>2. \A p \in 1..MaxPid : p # c => StatusOf(p)' = StatusOf(p)
    BY <1>1, SameLife
  <1>3. \A p \in 1..MaxPid : ParentOf(p)' = ParentOf(p)
    <2> SUFFICES ASSUME NEW p \in 1..MaxPid PROVE ParentOf(p)' = ParentOf(p)
      OBVIOUS
    <2> QED BY DEF ParentOf
  <1>4. life_status' = [life_status EXCEPT ![c] = StatusOf(c)']
    <2> DEFINE t == StatusOf(c)'
    <2>1. life_status' = [p \in 1..MaxPid |-> StatusOf(p)']
      BY DEF life_status
    <2>2. life_status = [p \in 1..MaxPid |-> StatusOf(p)]
      BY DEF life_status
    <2>3. [life_status EXCEPT ![c] = t] = [p \in 1..MaxPid |-> IF p = c THEN t ELSE StatusOf(p)]
      BY <2>2
    <2> QED BY <1>2, <2>1, <2>3
  <1>5. life_parent' = life_parent
    BY <1>3 DEF life_parent
  <1> QED BY <1>1, <1>4, <1>5 DEF life_status

\* Leaving user mode: yield and the timer are invisible, wait and read block.
LEMMA SwitchLifecycle ==
    ASSUME IInv, PidsInBound, Running, NEW w \in WaitingState, NEW b \in BOOLEAN,
           SaveAndSwitch(w, b), w.kind # "AmZombie"
    PROVE  [Lifecycle!Next]_<<life_status, life_parent>>
  <1>0. PICK c \in DOMAIN processes : c = current_pid
    BY CurrentInTable
  <1>1. /\ c \in DOMAIN processes /\ processes[c] \in Process
        /\ processes[c].waiting.kind = "None"
    BY <1>0, CurrentInTable DEF current, IInv, UserRunsInItsOwnSpace, Running
  <1>2. /\ processes' = [processes EXCEPT ![c].paused = image, ![c].waiting = w]
        /\ UNCHANGED next_free_pid
    BY <1>0 DEF SaveAndSwitch
  <1>3. /\ DOMAIN processes' = DOMAIN processes
        /\ \A p \in DOMAIN processes :
              /\ processes'[p].ppid = processes[p].ppid
              /\ p # c => processes'[p].waiting.kind = processes[p].waiting.kind
        /\ processes'[c].waiting = w
    BY <1>1, <1>2 DEF IInv, TypeOK, Process
  <1>4. /\ c \in 1..MaxPid /\ c \in Nat /\ life_status[c] = StatusOf(c)
        /\ life_status' = [life_status EXCEPT ![c] = StatusOf(c)']
        /\ life_parent' = life_parent
    BY <1>1, <1>2, <1>3, OneMoves
  <1>5. StatusOf(c) = "running"
    BY <1>1, <1>4, StatusCases
  <1>6. CASE w.kind = "None"
    <2>1. StatusOf(c)' = "running"
      BY <1>1, <1>3, <1>4, <1>6, StatusCasesAfter
    <2>2. life_status' = life_status
      BY <1>4, <1>5, <2>1 DEF life_status
    <2> QED BY <1>4, <2>2
  <1>7. CASE w.kind \in {"WaitingRead", "WaitingChild"}
    <2>1. StatusOf(c)' = "blocked"
      BY <1>1, <1>3, <1>4, <1>7, StatusCasesAfter
    <2>2. Lifecycle!Block(c)
      BY <1>4, <1>5, <2>1 DEF Lifecycle!Block
    <2> QED BY <1>4, <2>2 DEF Lifecycle!Next
  <1> QED BY <1>6, <1>7 DEF WaitingState

\* exit.
LEMMA HaltLifecycle ==
    ASSUME IInv, PidsInBound, NEW code \in ExitCodes, syscall_halt(code)
    PROVE  Lifecycle!Next
  <1> DEFINE w == [kind |-> "AmZombie", arg |-> code, ok |-> TRUE]
  <1>0. PICK c \in DOMAIN processes : c = current_pid
    BY CurrentInTable
  <1>1. /\ c \in DOMAIN processes /\ processes[c] \in Process
        /\ processes[c].waiting.kind = "None"
    BY <1>0, CurrentInTable DEF current, IInv, UserRunsInItsOwnSpace, Running, syscall_halt
  <1>2. processes' = [processes EXCEPT ![c].waiting = w] /\ UNCHANGED next_free_pid
    BY <1>0 DEF syscall_halt
  <1>3. /\ DOMAIN processes' = DOMAIN processes
        /\ \A p \in DOMAIN processes :
              /\ processes'[p].ppid = processes[p].ppid
              /\ p # c => processes'[p].waiting.kind = processes[p].waiting.kind
        /\ processes'[c].waiting.kind = "AmZombie"
    BY <1>1, <1>2 DEF IInv, TypeOK, Process
  <1>4. /\ c \in 1..MaxPid /\ c \in Nat /\ life_status[c] = StatusOf(c)
        /\ life_status' = [life_status EXCEPT ![c] = StatusOf(c)']
        /\ life_parent' = life_parent
    BY <1>1, <1>2, <1>3, OneMoves
  <1>5. StatusOf(c) = "running" /\ StatusOf(c)' = "zombie"
    BY <1>1, <1>3, <1>4, StatusCases, StatusCasesAfter
  <1>6. Lifecycle!Exit(c)
    BY <1>4, <1>5 DEF Lifecycle!Exit
  <1> QED BY <1>4, <1>6 DEF Lifecycle!Next

\* The end of a read.
LEMMA ReadLifecycle ==
    ASSUME IInv, PidsInBound, PollReadLine
    PROVE  Lifecycle!Next
  <1>0. PICK c \in DOMAIN processes : c = Polled
    BY PolledInTable
  <1>1. /\ c \in DOMAIN processes /\ processes[c] \in Process
        /\ processes[c].waiting.kind = "WaitingRead"
    BY <1>0, PolledInTable DEF PollReadLine, Polling
  <1>2. processes' = [processes EXCEPT ![c].waiting = NotWaiting] /\ UNCHANGED next_free_pid
    BY <1>0 DEF PollReadLine
  <1>3. /\ DOMAIN processes' = DOMAIN processes
        /\ \A p \in DOMAIN processes :
              /\ processes'[p].ppid = processes[p].ppid
              /\ p # c => processes'[p].waiting.kind = processes[p].waiting.kind
        /\ processes'[c].waiting.kind = "None"
    BY <1>1, <1>2 DEF IInv, TypeOK, Process, NotWaiting
  <1>4. /\ c \in 1..MaxPid /\ c \in Nat /\ life_status[c] = StatusOf(c)
        /\ life_status' = [life_status EXCEPT ![c] = StatusOf(c)']
        /\ life_parent' = life_parent
    BY <1>1, <1>2, <1>3, OneMoves
  <1>5. StatusOf(c) = "blocked" /\ StatusOf(c)' = "running"
    BY <1>1, <1>3, <1>4, StatusCases, StatusCasesAfter
  <1>6. Lifecycle!Unblock(c)
    BY <1>4, <1>5 DEF Lifecycle!Unblock
  <1> QED BY <1>4, <1>6 DEF Lifecycle!Next

\* execve replaces the current process, which stays runnable.
LEMMA ExecLifecycle ==
    ASSUME IInv, PidsInBound, NEW program \in Programs, syscall_execve(program)
    PROVE  UNCHANGED <<life_status, life_parent>>
  <1>0. PICK c \in DOMAIN processes : c = current_pid
    BY CurrentInTable
  <1>1. /\ c \in DOMAIN processes /\ processes[c] \in Process
        /\ processes[c].waiting.kind = "None"
    BY <1>0, CurrentInTable DEF current, IInv, UserRunsInItsOwnSpace, Running, syscall_execve
  <1>2. PICK r \in Roots :
            processes' = [processes EXCEPT ![c].root = r, ![c].paused = program,
                                           ![c].waiting = NotWaiting]
    BY <1>0 DEF syscall_execve, InitialState
  <1>3. /\ DOMAIN processes' = DOMAIN processes
        /\ \A p \in DOMAIN processes :
              /\ processes'[p].ppid = processes[p].ppid
              /\ p # c => processes'[p].waiting.kind = processes[p].waiting.kind
        /\ processes'[c].waiting.kind = "None"
    BY <1>1, <1>2 DEF IInv, TypeOK, Process, NotWaiting
  <1>4. UNCHANGED next_free_pid
    BY DEF syscall_execve
  <1>5. /\ c \in 1..MaxPid /\ c \in Nat /\ life_status[c] = StatusOf(c)
        /\ life_status' = [life_status EXCEPT ![c] = StatusOf(c)']
        /\ life_parent' = life_parent
    BY <1>1, <1>3, <1>4, OneMoves
  <1>6. StatusOf(c) = "running" /\ StatusOf(c)' = "running"
    BY <1>1, <1>3, <1>5, StatusCases, StatusCasesAfter
  <1>7. life_status' = life_status
    BY <1>5, <1>6 DEF life_status
  <1> QED BY <1>5, <1>7

\* fork: the pid handed out was unborn, and its parent is the running process.
LEMMA ForkLifecycle ==
    ASSUME IInv, PidsInBound, syscall_fork
    PROVE  Lifecycle!Next
  <1>0. PICK c \in DOMAIN processes : c = current_pid
    BY CurrentInTable
  <1>1. PICK n \in 1..MaxPid : n = next_free_pid
    BY DEF syscall_fork, IInv, TypeOK
  <1>2. /\ c \in 1..MaxPid /\ c \in Nat /\ n \in Nat /\ processes[c].waiting.kind = "None"
        /\ n \notin DOMAIN processes /\ next_free_pid' = n + 1 /\ MaxPid \in Nat
    <2>1. c \in 1..MaxPid /\ c \in Nat /\ MaxPid \in Nat
      BY PidsKnown, SchedulerAssumption
    <2>2. processes[c].waiting.kind = "None"
      BY <1>0 DEF current, IInv, UserRunsInItsOwnSpace, Running, syscall_fork
    <2>3. n \notin DOMAIN processes
      BY <1>1, <2>1 DEF IInv, PidsAreFresh
    <2>4. next_free_pid' = n + 1
      BY <1>1 DEF syscall_fork, PushChild, AllocatePid
    <2> QED BY <2>1, <2>2, <2>3, <2>4
  <1>3. PICK child : /\ child.ppid = c /\ child.waiting = NotWaiting
                     /\ processes' = With(processes, n, child)
    <2>1. PICK r \in Roots : PushChild(r, image)
      BY DEF syscall_fork
    <2> QED BY <1>0, <1>1, <2>1 DEF PushChild
  <1>4. /\ DOMAIN processes' = DOMAIN processes \cup {n}
        /\ processes'[n].ppid = c /\ processes'[n].waiting.kind = "None"
        /\ \A p \in DOMAIN processes : processes'[p] = processes[p]
    BY <1>2, <1>3 DEF With, NotWaiting
  <1>5. \A p \in 1..MaxPid : p # n => StatusOf(p)' = StatusOf(p) /\ ParentOf(p)' = ParentOf(p)
    <2> SUFFICES ASSUME NEW p \in 1..MaxPid, p # n
                 PROVE  StatusOf(p)' = StatusOf(p) /\ ParentOf(p)' = ParentOf(p)
      OBVIOUS
    <2>1. p \in Nat /\ (p < next_free_pid' <=> p < next_free_pid)
      BY <1>1, <1>2
    <2>2. /\ p \in DOMAIN processes' <=> p \in DOMAIN processes
          /\ p \in DOMAIN processes =>
                /\ processes'[p].ppid = processes[p].ppid
                /\ processes'[p].waiting.kind = processes[p].waiting.kind
      BY <1>4
    <2> QED BY <2>1, <2>2, SameLife
  <1>6. StatusOf(c) = "running" /\ StatusOf(n) = "unborn"
    <2>1. ~(n < next_free_pid)
      BY <1>1, <1>2
    <2> QED BY <1>2, <2>1, StatusCases
  <1>7. StatusOf(n)' = "running" /\ ParentOf(n)' = c
    BY <1>2, <1>4, StatusCasesAfter
  <1>8. life_status' = [life_status EXCEPT ![n] = "running"]
    BY <1>5, <1>7 DEF life_status
  <1>9. life_parent' = [life_parent EXCEPT ![n] = c]
    BY <1>5, <1>7 DEF life_parent
  <1>10. life_status[c] = "running" /\ life_status[n] = "unborn"
    BY <1>2, <1>6 DEF life_status
  <1>11. Lifecycle!Fork(c, n)
    BY <1>8, <1>9, <1>10 DEF Lifecycle!Fork
  <1> QED BY <1>2, <1>11 DEF Lifecycle!Next

\* The parent wakes in the step in which its zombie child leaves the table.
LEMMA ReapLifecycle ==
    ASSUME IInv, PidsInBound, Polling("WaitingChild"),
           NEW c \in Collectable(Polled), Reap(c)
    PROVE  Lifecycle!Next
  <1>0. PICK q \in DOMAIN processes : q = Polled
    BY PolledInTable
  <1>1. /\ c \in DOMAIN processes /\ processes[c].waiting.kind = "AmZombie"
        /\ processes[c].ppid = q /\ processes[q].waiting.kind = "WaitingChild" /\ c # q
    BY <1>0 DEF Collectable, Polling
  <1>2. /\ c \in 1..MaxPid /\ q \in 1..MaxPid /\ c \in Nat /\ q \in Nat /\ MaxPid \in Nat
        /\ c < next_free_pid
    BY <1>1, PidsKnown, SchedulerAssumption DEF IInv, PidsAreFresh
  <1> DEFINE mid == [processes EXCEPT ![q].waiting = NotWaiting]
  <1>3. processes' = Without(mid, c) /\ UNCHANGED next_free_pid
    BY <1>0 DEF Reap
  <1>4. /\ DOMAIN mid = DOMAIN processes
        /\ mid[q].waiting.kind = "None"
        /\ \A p \in DOMAIN processes :
              mid[p].ppid = processes[p].ppid /\ (p # q => mid[p] = processes[p])
    BY DEF NotWaiting, IInv, TypeOK, Process
  <1> HIDE DEF mid
  <1>5. /\ DOMAIN processes' = DOMAIN processes \ {c}
        /\ \A p \in DOMAIN processes \ {c} : processes'[p] = mid[p]
    BY <1>3, <1>4 DEF Without
  <1>6. \A p \in 1..MaxPid : p # c /\ p # q =>
            StatusOf(p)' = StatusOf(p) /\ ParentOf(p)' = ParentOf(p)
    <2> SUFFICES ASSUME NEW p \in 1..MaxPid, p # c, p # q
                 PROVE  StatusOf(p)' = StatusOf(p) /\ ParentOf(p)' = ParentOf(p)
      OBVIOUS
    <2>1. p \in Nat /\ (p < next_free_pid' <=> p < next_free_pid)
      BY <1>2, <1>3
    <2>2. /\ p \in DOMAIN processes' <=> p \in DOMAIN processes
          /\ p \in DOMAIN processes =>
                /\ processes'[p].ppid = processes[p].ppid
                /\ processes'[p].waiting.kind = processes[p].waiting.kind
      BY <1>4, <1>5
    <2> QED BY <2>1, <2>2, SameLife
  <1>7. StatusOf(q) = "blocked" /\ StatusOf(c) = "zombie" /\ ParentOf(c) = q
    BY <1>1, <1>2, StatusCases
  <1>8. StatusOf(q)' = "running" /\ StatusOf(c)' = "gone" /\ ParentOf(c)' = 0
    BY <1>1, <1>2, <1>3, <1>4, <1>5, StatusCasesAfter
  <1>9. ParentOf(q)' = ParentOf(q)
    BY <1>1, <1>4, <1>5 DEF ParentOf
  <1>10. life_status' = [life_status EXCEPT ![q] = "running", ![c] = "gone"]
    BY <1>1, <1>2, <1>6, <1>8 DEF life_status
  <1>11. life_parent' = [life_parent EXCEPT ![c] = 0]
    BY <1>2, <1>6, <1>8, <1>9 DEF life_parent
  <1>12. life_status[q] = "blocked" /\ life_status[c] = "zombie" /\ life_parent[c] = q
    BY <1>2, <1>7 DEF life_status, life_parent
  <1>13. Lifecycle!Reap(q, c)
    BY <1>10, <1>11, <1>12 DEF Lifecycle!Reap
  <1> QED BY <1>2, <1>13 DEF Lifecycle!Next

\* The boot process alone is the abstract initial state.
LEMMA InitLifecycle == ASSUME Init PROVE Lifecycle!Init /\ PidsInBound
  <1>1. /\ DOMAIN processes = {1} /\ processes[1].waiting.kind = "None"
        /\ processes[1].ppid = 0 /\ next_free_pid = 2 /\ MaxPid \in Nat \ {0}
    BY SchedulerAssumption DEF Init, NotWaiting
  <1>2. \A p \in 1..MaxPid : p \in Nat
    BY <1>1
  <1>3. \A p \in 1..MaxPid :
            /\ StatusOf(p) = IF p = 1 THEN "running" ELSE "unborn"
            /\ ParentOf(p) = 0
    <2> SUFFICES ASSUME NEW p \in 1..MaxPid
                 PROVE  /\ StatusOf(p) = IF p = 1 THEN "running" ELSE "unborn"
                        /\ ParentOf(p) = 0
      OBVIOUS
    <2>1. CASE p = 1
      BY <1>1, <1>2, <2>1, StatusCases
    <2>2. CASE p # 1
      <3>1. ~(p < next_free_pid) /\ p \notin DOMAIN processes
        BY <1>1, <2>2
      <3> QED BY <1>2, <2>2, <3>1, StatusCases
    <2> QED BY <2>1, <2>2
  <1>4. Lifecycle!Init
    BY <1>3 DEF Lifecycle!Init, life_status, life_parent
  <1> QED BY <1>1, <1>4 DEF PidsInBound

\* Steps that neither the table's entries nor the pid counter see.
LEMMA TableUnchangedLifecycle ==
    ASSUME UNCHANGED <<processes, next_free_pid>>
    PROVE  UNCHANGED <<life_status, life_parent>>
  BY DEF life_status, life_parent, StatusOf, ParentOf

\* Every step of the scheduler is a step, or a stutter, of the life cycle.
LEMMA NextLifecycle ==
    ASSUME IInv, PidsInBound, [Next]_vars
    PROVE  [Lifecycle!Next]_<<life_status, life_parent>> /\ PidsInBound'
  <1>1. NotWaiting \in WaitingState /\ NotWaiting.kind = "None"
    BY DEF NotWaiting, WaitingState
  <1>2. PidsInBound'
    <2>1. CASE syscall_fork
      BY <2>1, SchedulerAssumption DEF syscall_fork, PushChild, AllocatePid, PidsInBound, IInv, TypeOK
    <2>2. CASE UNCHANGED next_free_pid
      BY <2>2 DEF PidsInBound
    <2> QED
      BY <2>1, <2>2 DEF Next, Syscall, syscall_yield, syscall_wait, syscall_read_fd, syscall_halt,
        syscall_execve, OutOfFrames, FatalSyscall, Panic, SaveAndSwitch, TimerInterrupt,
        KeyboardInterrupt, LoopHlt, run_next_task, StartUserland, PollZombie, PollRefused,
        PollReadNothing, PollReadLine, PollChildNothing, PollChildReap, Reap, DoNothing, vars
  <1>3. CASE \E pid \in WaitArgs, ok \in BOOLEAN : syscall_wait(pid, ok)
    <2>1. PICK pid \in WaitArgs, ok \in BOOLEAN : syscall_wait(pid, ok)
      BY <1>3
    <2> DEFINE w == [kind |-> "WaitingChild", arg |-> pid, ok |-> ok]
    <2>2. w \in WaitingState /\ w.kind # "AmZombie"
      BY SchedulerAssumption DEF WaitingState
    <2>3. Running /\ SaveAndSwitch(w, TRUE)
      BY <2>1 DEF syscall_wait
    <2> HIDE DEF w
    <2> QED BY <1>2, <2>2, <2>3, SwitchLifecycle
  <1>4. CASE \E ok \in BOOLEAN : syscall_read_fd(ok)
    <2>1. PICK ok \in BOOLEAN : syscall_read_fd(ok)
      BY <1>4
    <2> DEFINE w == [kind |-> "WaitingRead", arg |-> 0, ok |-> ok]
    <2>2. w \in WaitingState /\ w.kind # "AmZombie"
      BY DEF WaitingState
    <2>3. Running /\ SaveAndSwitch(w, TRUE)
      BY <2>1 DEF syscall_read_fd
    <2> HIDE DEF w
    <2> QED BY <1>2, <2>2, <2>3, SwitchLifecycle
  <1>5. CASE syscall_yield
    BY <1>1, <1>2, <1>5, SwitchLifecycle DEF syscall_yield
  <1>6. CASE TimerInterrupt
    <2>1. CASE mode = "user" /\ SaveAndSwitch(NotWaiting, FALSE)
      BY <1>1, <1>2, <2>1, SwitchLifecycle DEF Running
    <2>2. CASE UNCHANGED vars
      BY <1>2, <2>2, TableUnchangedLifecycle DEF vars
    <2> QED BY <1>6, <2>1, <2>2 DEF TimerInterrupt
  <1>7. CASE \E exit_code \in ExitCodes : syscall_halt(exit_code)
    BY <1>2, <1>7, HaltLifecycle
  <1>8. CASE syscall_fork
    BY <1>2, <1>8, ForkLifecycle
  <1>9. CASE \E program \in Programs : syscall_execve(program)
    BY <1>2, <1>9, ExecLifecycle
  <1>10. CASE PollReadLine
    BY <1>2, <1>10, ReadLifecycle
  <1>11. CASE PollChildReap
    BY <1>2, <1>11, ReapLifecycle DEF PollChildReap
  <1>12. CASE UNCHANGED <<processes, next_free_pid>>
    BY <1>2, <1>12, TableUnchangedLifecycle
  <1>13. OutOfFrames \/ FatalSyscall \/ KeyboardInterrupt \/ LoopHlt \/ UNCHANGED vars
           => UNCHANGED <<processes, next_free_pid>>
    BY DEF OutOfFrames, FatalSyscall, Panic, KeyboardInterrupt, LoopHlt, vars
  <1>14. StartUserland \/ PollZombie \/ PollRefused \/ PollReadNothing \/ PollChildNothing
           => UNCHANGED <<processes, next_free_pid>>
    BY DEF StartUserland, PollZombie, PollRefused, PollReadNothing, PollChildNothing, DoNothing
  <1> QED
    BY <1>3, <1>4, <1>5, <1>6, <1>7, <1>8, <1>9, <1>10, <1>11, <1>12, <1>13, <1>14
       DEF Next, Syscall, run_next_task

\* scheduling.rs, processes.rs: the process table, with its queue, address spaces
\* and interrupts, implements the life cycle that programs rely on: a pid is born
\* once, by a fork of a running process, exits once, and disappears only when the
\* parent blocked in wait collects it.
THEOREM LifecycleCorrect == Spec => ImplementsLifecycle
<1>1. Init => Lifecycle!Init /\ PidsInBound
  BY InitLifecycle
<1>2. IInv /\ PidsInBound /\ [Next]_vars
        => [Lifecycle!Next]_<<life_status, life_parent>> /\ PidsInBound'
  BY NextLifecycle
<1> QED BY <1>1, <1>2, Invariance, PTL DEF Spec, ImplementsLifecycle, Lifecycle!Spec, Lifecycle!lifecycleVars
=============================================================================
