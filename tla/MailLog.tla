------------------------------- MODULE MailLog -------------------------------
(***************************************************************************)
(* The mail log on its way into the database. Postfix appends lines to     *)
(* /var/log/postfix/maillog, on a volume; the application asks the control *)
(* surface for what follows the position it has committed                  *)
(* (core/mail_log_ingest.py), and commits the rows and the new position    *)
(* together; the control surface (_tail_maillog) hands out complete lines, *)
(* and rotates a long file once it has handed out all of it.               *)
(*                                                                         *)
(* What is abstracted: a line is its number, in the order Postfix wrote    *)
(* them; an offset counts lines, a size counts half lines (the last line   *)
(* of the file may be half-written); `rows` lists the lines that have been *)
(* applied to mail_log. Which row a line changes is a matter of its text.  *)
(* External: postlogd finds the file renamed by `postfix logrotate` and    *)
(* creates a new one for its next line.                                    *)
(***************************************************************************)
EXTENDS Naturals, Sequences

CONSTANTS
  Workers,      \* threads that ingest: the tick, requests of the Mail Log page
  Inodes,       \* inode numbers; a removed file's may be used again
  NoInode,      \* "not known", "there is no file"
  MaxLines,     \* lines Postfix writes
  Chunk,        \* _MAILLOG_MAX_READ_BYTES, in lines
  RotateLines,  \* _MAILLOG_ROTATE_BYTES, in lines
  Kinds,        \* faults that may happen
  MaxFaults     \* how many of them

\* "refuse" `postfix logrotate` fails     "slow"   it outlives the 30 s of _run
\* "giveup" the caller's 15 s are over    "halt"   the postfix container stops
\* "quit"   the application stops         "commit" COMMIT fails
FaultKinds == {"refuse", "slow", "giveup", "halt", "quit", "commit"}

ASSUME LogAssumption ==
  /\ NoInode \notin Inodes
  /\ MaxLines \in Nat /\ MaxFaults \in Nat
  /\ Chunk \in Nat \ {0} /\ RotateLines \in Nat /\ Chunk < RotateLines
  /\ Kinds \subseteq FaultKinds

VARIABLES
  file,     \* the maillog: its inode, and the lines written before its first
  written,  \* complete lines written so far
  half,     \* the next line is there, but not all of it
  kept,     \* inodes of rotated copies
  queue,    \* calls on the control socket, the first one being handled
  srv,      \* where the control surface is with the first call
  tail,     \* what the handler knows of the file
  answer,   \* its answer
  job,      \* what each worker is doing
  pos,      \* mail_log_ingest_state: byte_offset and maillog_inode
  rows,     \* the lines applied to mail_log, in the order they were
  atRisk,   \* history: lines in a renamed file that no later call can reach
  faults    \* faults so far

disk == <<file, written, half, kept, atRisk>>
handler == <<srv, tail, answer>>
db == <<pos, rows>>
vars == <<disk, queue, handler, job, db, faults>>

Lines == 1..MaxLines
Position == [offset : 0..MaxLines, inode : Inodes \cup {NoInode}]
Start == [offset |-> 0, inode |-> NoInode]
NoTail == [inode |-> NoInode, size |-> 0, seen |-> 0, start |-> 0]
NoAnswer == [ok |-> FALSE, from |-> 0, upto |-> 0, pos |-> Start]
Idle == [step |-> "idle", since |-> Start, answer |-> NoAnswer]
AnswerType == [ok : BOOLEAN, from : 0..MaxLines, upto : 0..MaxLines, pos : Position]
Call == [worker : Workers, since : Position, open : BOOLEAN]

TypeOK ==
  /\ file \in [inode : Inodes \cup {NoInode}, base : 0..MaxLines]
  /\ written \in 0..MaxLines /\ half \in BOOLEAN
  /\ kept \subseteq Inodes /\ file.inode \notin kept
  /\ queue \in Seq(Call)
  /\ srv \in {"idle", "read", "rotate", "reply", "down"}
  /\ tail \in [inode : Inodes \cup {NoInode}, size : 0..2*MaxLines,
               seen : 0..MaxLines, start : 0..MaxLines]
  /\ answer \in AnswerType
  /\ job \in [Workers -> [step : {"idle", "call", "wait", "commit"},
                          since : Position, answer : AnswerType]]
  /\ \A w, x \in Workers : job[w].step # "idle" /\ job[x].step # "idle" => w = x
  /\ pos \in Position
  /\ rows \in Seq(Lines)
  /\ atRisk \subseteq Lines
  /\ faults \in 0..MaxFaults

Init ==
  /\ file \in [inode : Inodes, base : {0}]
  /\ written = 0 /\ half = FALSE /\ kept = {}
  /\ queue = <<>>
  /\ srv = "idle" /\ tail = NoTail /\ answer = NoAnswer
  /\ job = [w \in Workers |-> Idle]
  /\ pos = Start /\ rows = <<>>
  /\ atRisk = {}
  /\ faults = 0

Fault(kind) ==
  /\ kind \in Kinds
  /\ faults < MaxFaults
  /\ faults' = faults + 1

At(w, step) == job[w].step = step
Interval(from, upto) == (from + 1)..upto
Ingested == {rows[i] : i \in 1..Len(rows)}

-----------------------------------------------------------------------------
\* Postfix (postlogd) writes a line, at once or in two parts.

Opened ==
  IF file.inode # NoInode THEN file' = file
  ELSE \E i \in Inodes \ kept : file' = [inode |-> i, base |-> written]

WriteLine(complete) ==
  /\ srv # "down" /\ ~half /\ written < MaxLines
  /\ Opened
  /\ half' = ~complete
  /\ written' = IF complete THEN written + 1 ELSE written
  /\ UNCHANGED <<kept, atRisk, queue, handler, job, db, faults>>

Finish ==
  /\ half
  /\ half' = FALSE
  /\ written' = written + 1
  /\ UNCHANGED <<file, kept, atRisk, queue, handler, job, db, faults>>

-----------------------------------------------------------------------------
\* The application: ingest_new_log_lines, called by the tick until nothing is
\* new and by the Mail Log page once.

SetJob(w, j) == job' = [job EXCEPT ![w] = j]

\* Variant: without _ingest_lock.
BeginUnlocked(w) ==
  /\ At(w, "idle")
  /\ SetJob(w, [Idle EXCEPT !.step = "call", !.since = pos])
  /\ UNCHANGED <<disk, queue, handler, db, faults>>
\* _ingest_lock is held until the job is idle again.
Begin(w) ==
  /\ \A x \in Workers : At(x, "idle")
  /\ SetJob(w, [Idle EXCEPT !.step = "call", !.since = pos])
  /\ UNCHANGED <<disk, queue, handler, db, faults>>

Connect(w) ==
  /\ At(w, "call")
  /\ IF srv = "down"
     THEN SetJob(w, Idle) /\ UNCHANGED queue
     ELSE /\ queue' = Append(queue, [worker |-> w, since |-> job[w].since, open |-> TRUE])
          /\ SetJob(w, [job[w] EXCEPT !.step = "wait"])
  /\ UNCHANGED <<disk, handler, db, faults>>

\* PostfixControlError; the session is rolled back or closed.
GiveUp(w) ==
  /\ At(w, "wait")
  /\ Fault("giveup")
  /\ queue' = [i \in 1..Len(queue) |-> [queue[i] EXCEPT !.open = @ /\ queue[i].worker # w]]
  /\ SetJob(w, Idle)
  /\ UNCHANGED <<disk, handler, db>>

NumbersOf(a) == [i \in 1..(a.upto - a.from) |-> a.from + i]

\* Variant: the rows are committed, the position is not.
CommitRowsOnly(w) ==
  /\ At(w, "commit")
  /\ rows' = rows \o NumbersOf(job[w].answer)
  /\ SetJob(w, Idle)
  /\ UNCHANGED <<disk, queue, handler, pos, faults>>
\* One transaction: the rows and the position they lead to.
Commit(w) ==
  /\ At(w, "commit")
  /\ rows' = rows \o NumbersOf(job[w].answer)
  /\ pos' = job[w].answer.pos
  /\ SetJob(w, Idle)
  /\ UNCHANGED <<disk, queue, handler, faults>>

CommitFails(w) ==
  /\ At(w, "commit")
  /\ Fault("commit")
  /\ SetJob(w, Idle)
  /\ UNCHANGED <<disk, queue, handler, db>>

AppQuits ==
  /\ Fault("quit")
  /\ job' = [w \in Workers |-> Idle]
  /\ queue' = [i \in 1..Len(queue) |-> [queue[i] EXCEPT !.open = FALSE]]
  /\ UNCHANGED <<disk, handler, db>>

-----------------------------------------------------------------------------
\* The control surface: _tail_maillog, _rotate_maillog.

Size == 2 * (written - file.base) + (IF half THEN 1 ELSE 0)

\* Variant: the heuristic from before the inode was known, for every call.
TruncatedBySize(since) == 2 * since.offset > Size
Truncated(since) ==
  IF since.inode # NoInode THEN file.inode # since.inode ELSE 2 * since.offset > Size

Answered(a) == srv' = "reply" /\ answer' = a

\* os.stat; a file that is not there has no lines.
Stat ==
  /\ srv = "idle" /\ queue # <<>>
  /\ LET since == Head(queue).since
     IN IF file.inode = NoInode
        THEN Answered([NoAnswer EXCEPT !.ok = TRUE]) /\ UNCHANGED tail
        ELSE /\ tail' = [inode |-> file.inode, size |-> Size, seen |-> written,
                         start |-> IF Truncated(since) THEN 0 ELSE since.offset]
             /\ srv' = "read" /\ UNCHANGED answer
  /\ UNCHANGED <<disk, queue, job, db, faults>>

Handed(from, upto, offset) ==
  [ok |-> TRUE, from |-> from, upto |-> upto,
   pos |-> [offset |-> offset, inode |-> tail.inode]]

\* How many complete lines there are to read.
Available ==
  LET n == written - file.base - tail.start IN IF n < Chunk THEN n ELSE Chunk

Consumed(n) == tail.start + n

MayRotate(offset) == 2 * offset >= tail.size /\ tail.size >= 2 * RotateLines

Read ==
  /\ srv = "read"
  /\ LET n == Available
         from == file.base + tail.start
         offset == Consumed(n)
     IN /\ answer' = Handed(from, from + n, offset)
        /\ srv' = IF MayRotate(offset) THEN "rotate" ELSE "reply"
  /\ UNCHANGED <<disk, queue, tail, job, db, faults>>

\* The file is renamed, with what is in this answer and what was written since
\* the call began; a line in the middle of being written ends up in it too.
Renamed ==
  /\ file' = [inode |-> NoInode, base |-> file.base]
  /\ written' = IF half THEN written + 1 ELSE written
  /\ half' = FALSE
  /\ atRisk' = atRisk \cup Interval(answer.from, answer.upto)
                      \cup Interval(tail.seen, written')

\* Only the newest copy is kept. A refused rotation changes nothing; one that
\* hangs makes an error of the whole call.
Rotate ==
  /\ srv = "rotate"
  /\ \/ /\ Renamed /\ kept' = {file.inode}
        /\ Answered(answer) /\ UNCHANGED faults
     \/ /\ UNCHANGED disk
        /\ Answered(answer) /\ Fault("refuse")
     \/ /\ \/ Renamed /\ kept' = kept \cup {file.inode}
           \/ UNCHANGED disk
        /\ Answered(NoAnswer) /\ Fault("slow")
  /\ UNCHANGED <<queue, tail, job, db>>

Rest == srv' = "idle" /\ tail' = NoTail /\ answer' = NoAnswer

ServerGone ==
  /\ srv' = "down" /\ tail' = NoTail /\ answer' = NoAnswer
  /\ queue' = <<>>
  /\ job' = [w \in Workers |-> IF At(w, "wait") THEN Idle ELSE job[w]]

\* To a caller that has hung up, sendall raises and the main loop ends.
Reply ==
  /\ srv = "reply"
  /\ LET call == Head(queue)
         j == job[call.worker]
     IN \/ /\ call.open
           /\ Rest /\ queue' = Tail(queue)
           /\ SetJob(call.worker, IF answer.ok THEN [j EXCEPT !.step = "commit", !.answer = answer]
                                  ELSE Idle)
        \/ ~call.open /\ ServerGone
  /\ UNCHANGED <<disk, db, faults>>

ContainerStops ==
  /\ srv # "down"
  /\ Fault("halt")
  /\ ServerGone
  /\ UNCHANGED <<disk, db>>

\* postfix/entrypoint.sh touches the file on the volume.
Boot ==
  /\ srv = "down"
  /\ srv' = "idle"
  /\ Opened
  /\ UNCHANGED <<written, half, kept, atRisk, queue, tail, answer, job, db, faults>>

-----------------------------------------------------------------------------
Work(w) == Connect(w) \/ Commit(w)
Server == Stat \/ Read \/ Rotate \/ Reply \/ Boot

Next ==
  \/ Finish \/ Server \/ ContainerStops \/ AppQuits
  \/ \E complete \in BOOLEAN : WriteLine(complete)
  \/ \E w \in Workers : Begin(w) \/ Work(w) \/ GiveUp(w) \/ CommitFails(w)

\* The tick comes every minute, jobs go on, and so does the server's loop.
\* (Nothing is promised about Postfix writing, or finishing, a line.)
Spec ==
  /\ Init /\ [][Next]_vars
  /\ WF_vars(Server) /\ WF_vars(\E w \in Workers : Begin(w))
  /\ \A w \in Workers : WF_vars(Work(w))

-----------------------------------------------------------------------------
(***************************************************************************)
(* Properties                                                              *)
(***************************************************************************)

\* Every line has been applied, can still be read with the committed
\* position, or was renamed away in the very call that handed it out, or while
\* that call ran. Nothing else - chunks, half lines, new files that outgrow
\* the old offset, reused inodes, restarts - makes ingestion skip a line.
Reachable ==
  IF file.inode = NoInode THEN {}
  ELSE Interval(file.base + (IF Truncated(pos) THEN 0 ELSE pos.offset), written)
NoneSkipped == 1..written \subseteq Ingested \cup Reachable \cup atRisk

\* "Only called once everything up to the end of the old file has been handed
\* out" (_rotate_maillog): when nobody is ingesting, every line has been
\* applied or can still be read. (It is not so: see atRisk.)
NoneDropped ==
  (\A w \in Workers : At(w, "idle")) => 1..written \subseteq Ingested \cup Reachable

\* The lines reach mail_log in the order Postfix wrote them, each at most once,
\* none passed over that was not renamed away, and all the others in the end:
\* "reading in 4 MiB chunks until it has caught up" (postfix-architecture.md,
\* section 9). A rejection is not listed twice, and a message shows its latest
\* status, not an earlier one.
Log == INSTANCE LogDelivery WITH gone <- atRisk
Delivery == Log!Spec
=============================================================================
