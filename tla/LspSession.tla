------------------------------ MODULE LspSession ------------------------------
(***************************************************************************)
(* The enrichment passes of one repository talking to their language       *)
(* server: the skeleton of run_enrichment_pass (daemon/lsp_enrichment.py)  *)
(* and the LspClient of each pass (daemon/lsp_client.py) over the children *)
(* of PyrightRegistry.  A pass is one call of ensure_process; the          *)
(* scheduler runs the passes of a repository one after the other.          *)
(*                                                                         *)
(* Every client has a reader thread of its own on the child's stdout and a *)
(* write lock of its own for its stdin.  Both pipes are bounded; a write   *)
(* into a full one blocks, without a timeout, until the child reads or     *)
(* dies.  A frame is <<pass, kind, site>>.  The child is external: it      *)
(* answers requests in order, may send a request of its own once it is     *)
(* initialized, may be slow for ever, and leaves when it reads "exit".     *)
(* What the passes write to the index is left out.                         *)
(***************************************************************************)
EXTENDS PyrightRegistry, Sequences

CONSTANTS MaxSites,   \* bound: definition requests of each pass
          PipeSize    \* bound: frames a pipe holds

ASSUME SessionAssumption ==
    /\ Users \subseteq Nat \ {0}
    /\ MaxSites \in [Users -> Nat]
    /\ PipeSize \in Nat \ {0}

VARIABLES
    at,        \* what each pass is doing: the message it is sending, or a stage
    step,      \* where the sending of that message stands
    site,      \* how many sites each pass has come to
    answer,    \* the Future each pass waits for
    pending,   \* the requests in the _pending of their clients
    writeLock, \* who holds each client's _write_lock
    reader,    \* each client's reader thread
    frame,     \* the frame each reader has read
    stdin,     \* the frames on their way to each child
    stdout,    \* the frames on their way from each child
    garbled,   \* the children whose stdout two readers have torn
    taken,     \* the child that close() found in _entries
    exited     \* the daemon's process has ended, and with it all its threads

passVars    == <<at, step, site, answer>>
clientVars  == <<pending, writeLock, reader, frame>>
pipeVars    == <<stdin, stdout, garbled>>
sessionVars == <<passVars, clientVars, pipeVars>>
threadVars  == <<registryVars, sessionVars>>
vars        == <<threadVars, taken, exited>>

Requests == {"initialize", "definition", "shutdown"}
Messages == Requests \cup {"initialized", "didOpen", "exit"}
NoFrame  == <<0, "none", 0>>
Frames   == (Users \cup {0}) \X (Messages \cup {"none", "ask", "reply"}) \X Nat

ThreadsTypeOK ==
    /\ RegistryTypeOK
    /\ at \in [Users -> Messages \cup {"new", "ensure", "join", "ended"}]
    /\ step \in [Users -> {"lock", "write", "wait"}]
    /\ site \in [Users -> Nat]
    /\ answer \in [Users -> {"waiting", "result", "error", "broken"}]
    /\ pending \subseteq Frames
    /\ writeLock \in [Users -> {"free", "pass", "reader"}]
    /\ reader \in [Users -> {"none", "reading", "holding", "replying", "ended"}]
    /\ frame \in [Users -> Frames]
    /\ stdin \in [Procs -> Seq(Frames)]
    /\ stdout \in [Procs -> Seq(Frames)]
    /\ garbled \subseteq Procs
    /\ \A p \in Procs : Len(stdin[p]) <= PipeSize /\ Len(stdout[p]) <= PipeSize

SessionTypeOK ==
    /\ ThreadsTypeOK
    /\ taken \in Procs \cup {None}
    /\ exited \in BOOLEAN

SessionInit ==
    /\ RegistryInit
    /\ at = [n \in Users |-> "new"]
    /\ step = [n \in Users |-> "lock"]
    /\ site = [n \in Users |-> 0]
    /\ answer = [n \in Users |-> "waiting"]
    /\ pending = {}
    /\ writeLock = [n \in Users |-> "free"]
    /\ reader = [n \in Users |-> "none"]
    /\ frame = [n \in Users |-> NoFrame]
    /\ stdin = [p \in Procs |-> <<>>]
    /\ stdout = [p \in Procs |-> <<>>]
    /\ garbled = {}

-----------------------------------------------------------------------------
(* Sending: _send_request, send_notification, _write_frame_locked *)

Message(n) == <<n, at[n], site[n]>>

Begin(n, message) ==
    /\ at' = [at EXCEPT ![n] = message]
    /\ step' = [step EXCEPT ![n] = "lock"]

Free(n) == writeLock' = [writeLock EXCEPT ![n] = "free"]

\* Mutant: a pipe takes one frame more than it holds.
RoomForOneMore(pipe) == Len(pipe) <= PipeSize

Room(pipe) == Len(pipe) < PipeSize

\* Take the write lock and, for a request, register its Future.
LockToSend(n) ==
    /\ at[n] \in Messages
    /\ step[n] = "lock"
    /\ writeLock[n] = "free"
    /\ writeLock' = [writeLock EXCEPT ![n] = "pass"]
    /\ step' = [step EXCEPT ![n] = "write"]
    /\ IF at[n] \in Requests
       THEN pending' = pending \cup {Message(n)}
       ELSE UNCHANGED pending
    /\ UNCHANGED <<registryVars, at, site, answer, reader, frame, pipeVars>>

Write(n) ==
    /\ step[n] = "write"
    /\ Alive(held[n])
    /\ Room(stdin[held[n]])
    /\ stdin' = [stdin EXCEPT ![held[n]] = Append(@, Message(n))]
    /\ Free(n)

-----------------------------------------------------------------------------
(* The pass *)

StartPass(n) ==
    /\ at[n] = "new"
    /\ \A m \in Users : m < n => at[m] = "ended"
    /\ Begin(n, "ensure")
    /\ Ensure(n)
    /\ UNCHANGED <<site, answer, clientVars, pipeVars>>

GetProcess(n) ==
    /\ at[n] = "ensure"
    /\ EnsureStep(n)
    /\ UNCHANGED sessionVars

\* LspClient.__init__ starts the reader; a pass without a process is over.
Connect(n) ==
    /\ at[n] = "ensure"
    /\ call[n] = "returned"
    /\ \/ /\ held[n] = None
          /\ Begin(n, "ended")
          /\ UNCHANGED reader
       \/ /\ held[n] # None
          /\ Begin(n, "initialize")
          /\ reader' = [reader EXCEPT ![n] = "reading"]
    /\ UNCHANGED <<registryVars, site, answer, pending, writeLock, frame, pipeVars>>

\* close(): an initialized client says goodbye to a child that is alive.
Close(n) == Begin(n, IF Alive(held[n]) THEN "shutdown" ELSE "join")

\* The next site of the worklist; its file may have been opened for an earlier one.
NextSite(n) ==
    /\ site[n] < MaxSites[n]
    /\ site' = [site EXCEPT ![n] = @ + 1]
    /\ \/ Begin(n, "didOpen")
       \/ site[n] > 0 /\ Begin(n, "definition")

Continue(n) == NextSite(n) \/ (Close(n) /\ UNCHANGED site)

\* A frame is written; a request then waits for its Future.  After "initialized"
\* a pass whose server offers no definitions goes straight to close().
SendMessage(n) ==
    /\ Write(n)
    /\ CASE at[n] \in Requests    -> step' = [step EXCEPT ![n] = "wait"] /\ UNCHANGED <<at, site>>
         [] at[n] = "initialized" -> Continue(n)
         [] at[n] = "didOpen"     -> Begin(n, "definition") /\ UNCHANGED site
         [] at[n] = "exit"        -> Begin(n, "join") /\ UNCHANGED site
    /\ UNCHANGED <<registryVars, answer, pending, reader, frame, stdout, garbled>>

\* The child is gone: the write raises, and a request takes its Future back.
SendFails(n) ==
    /\ step[n] = "write"
    /\ ~Alive(held[n])
    /\ Free(n)
    /\ pending' = pending \ {Message(n)}
    /\ answer' = [answer EXCEPT ![n] = "waiting"]
    /\ IF at[n] \in {"didOpen", "definition"} THEN Close(n) ELSE Begin(n, "join")
    /\ UNCHANGED <<registryVars, site, reader, frame, pipeVars>>

\* The Future is done, or its timeout has elapsed, which counts as an error; the
\* request stays in _pending then.  Only a broken connection ends the worklist.
Await(n) ==
    /\ step[n] = "wait"
    /\ CASE at[n] = "initialize" ->
              /\ Begin(n, IF answer[n] = "result" THEN "initialized" ELSE "join")
              /\ UNCHANGED site
         [] at[n] = "definition" ->
              IF answer[n] = "broken" THEN Close(n) /\ UNCHANGED site ELSE Continue(n)
         [] at[n] = "shutdown" ->
              /\ Begin(n, IF answer[n] = "result" THEN "exit" ELSE "join")
              /\ UNCHANGED site
    /\ answer' = [answer EXCEPT ![n] = "waiting"]
    /\ UNCHANGED <<registryVars, clientVars, pipeVars>>

Own(n) == {r \in pending : r[1] = n}

\* Mutant: close() does not fail what is still pending.
JoinLeavesPending(n) ==
    /\ at[n] = "join"
    /\ Begin(n, "ended")
    /\ UNCHANGED <<registryVars, site, answer, clientVars, pipeVars>>

\* The end of close(): the reader has ended, or the join's timeout has elapsed.
Join(n) ==
    /\ at[n] = "join"
    /\ Begin(n, "ended")
    /\ pending' = pending \ Own(n)
    /\ UNCHANGED <<registryVars, site, answer, writeLock, reader, frame, pipeVars>>

PassStep(n) ==
    \/ GetProcess(n) \/ Connect(n)
    \/ LockToSend(n) \/ SendMessage(n) \/ SendFails(n) \/ Await(n) \/ Join(n)

-----------------------------------------------------------------------------
(* _reader_loop *)

\* The loop tests _closed between two frames.
Loop(n) ==
    reader' = [reader EXCEPT ![n] = IF at[n] \in {"join", "ended"} THEN "ended" ELSE "reading"]

Shared(p) == \E m, n \in Users : /\ m # n /\ held[m] = p /\ held[n] = p
                                 /\ reader[m] = "reading" /\ reader[n] = "reading"

\* Two readers blocked on one stdout take its lines in turns: a frame goes whole
\* to either, or is torn, after which no frame of that child is understood.
ReadFrame(n) ==
    LET p == held[n] IN
    /\ reader[n] = "reading"
    /\ stdout[p] # <<>>
    /\ stdout' = [stdout EXCEPT ![p] = Tail(@)]
    /\ \/ /\ p \notin garbled
          /\ frame' = [frame EXCEPT ![n] = Head(stdout[p])]
          /\ reader' = [reader EXCEPT ![n] = "holding"]
          /\ UNCHANGED garbled
       \/ /\ p \in garbled \/ Shared(p)
          /\ garbled' = garbled \cup {p}
          /\ Loop(n)
          /\ UNCHANGED frame
    /\ UNCHANGED <<registryVars, passVars, pending, writeLock, stdin>>

\* End of file: every pending Future fails and the thread ends.
ReadEof(n) ==
    /\ reader[n] = "reading"
    /\ ~Alive(held[n])
    /\ stdout[held[n]] = <<>>
    /\ reader' = [reader EXCEPT ![n] = "ended"]
    /\ pending' = pending \ Own(n)
    /\ answer' = [answer EXCEPT ![n] = IF Message(n) \in pending THEN "broken" ELSE @]
    /\ UNCHANGED <<registryVars, at, step, site, writeLock, frame, pipeVars>>

\* _handle_response: only a request this client has pending is answered.
HandleResponse(n) ==
    /\ reader[n] = "holding"
    /\ frame[n][2] # "ask"
    /\ pending' = pending \ (Own(n) \cap {frame[n]})
    /\ \E outcome \in {"result", "error"} :
          answer' = [answer EXCEPT ![n] =
                        IF frame[n] \in Own(n) /\ frame[n] = Message(n) THEN outcome ELSE @]
    /\ frame' = [frame EXCEPT ![n] = NoFrame]
    /\ Loop(n)
    /\ UNCHANGED <<registryVars, at, step, site, writeLock, pipeVars>>

\* A request of the child: the reader itself replies, and needs the write lock.
LockToReply(n) ==
    /\ reader[n] = "holding"
    /\ frame[n][2] = "ask"
    /\ writeLock[n] = "free"
    /\ writeLock' = [writeLock EXCEPT ![n] = "reader"]
    /\ reader' = [reader EXCEPT ![n] = "replying"]
    /\ frame' = [frame EXCEPT ![n] = NoFrame]
    /\ UNCHANGED <<registryVars, passVars, pending, pipeVars>>

Reply(n) ==
    LET p == held[n] IN
    /\ reader[n] = "replying"
    /\ \/ ~Alive(p) /\ UNCHANGED stdin
       \/ /\ Alive(p) /\ Room(stdin[p])
          /\ stdin' = [stdin EXCEPT ![p] = Append(@, <<n, "reply", 0>>)]
    /\ Free(n)
    /\ Loop(n)
    /\ UNCHANGED <<registryVars, passVars, pending, frame, stdout, garbled>>

ReaderStep(n) ==
    ReadFrame(n) \/ ReadEof(n) \/ HandleResponse(n) \/ LockToReply(n) \/ Reply(n)

-----------------------------------------------------------------------------
(* The child, which writes its answers before it reads on *)

Serve(p) ==
    /\ proc[p] = "up"
    /\ stdin[p] # <<>>
    /\ stdin' = [stdin EXCEPT ![p] = Tail(@)]
    /\ LET f == Head(stdin[p]) IN
       CASE f[2] = "exit" -> Leave(p) /\ UNCHANGED stdout
         [] f[2] \in Requests ->
              /\ Room(stdout[p])
              /\ stdout' = [stdout EXCEPT ![p] = Append(@, f)]
              /\ UNCHANGED registryVars
         [] f[2] = "initialized" ->
              /\ \/ UNCHANGED stdout
                 \/ /\ Room(stdout[p])
                    /\ stdout' = [stdout EXCEPT ![p] = Append(@, <<0, "ask", 0>>)]
              /\ UNCHANGED registryVars
         [] OTHER -> UNCHANGED <<registryVars, stdout>>
    /\ UNCHANGED <<passVars, clientVars, garbled>>

\* Timers and close() of the registry.
RegistryStep ==
    /\ Elapse \/ OnIdleTimeout \/ CloseStep
    /\ UNCHANGED sessionVars

\* What was on its way to a child is lost when it ends; what it wrote is not.
End(p, how) ==
    /\ how
    /\ stdin' = [stdin EXCEPT ![p] = IF proc'[p] = "gone" THEN <<>> ELSE @]
    /\ UNCHANGED <<passVars, clientVars, stdout, garbled>>

ChildStep(p) == Serve(p) \/ End(p, Terminate(p)) \/ End(p, Exit(p))

SessionNext ==
    \/ \E n \in Users : StartPass(n) \/ PassStep(n) \/ ReaderStep(n)
    \/ \E p \in Procs : ChildStep(p)
    \/ RegistryStep

-----------------------------------------------------------------------------
(* The daemon's process.  on_shutdown calls close(), which returns when the      *)
(* child it took has ended or was killed; os._exit then ends every thread, also  *)
(* one that has just spawned a child, and leaves the children to themselves.     *)

Init == SessionInit /\ taken = None /\ exited = FALSE

\* A step of the daemon's threads or of a child while the process lasts.
Lasting(action) ==
    /\ ~exited
    /\ action
    /\ taken' = IF closing = "set" /\ closing' = "cleared" THEN entry ELSE taken
    /\ UNCHANGED exited

ProcessExit ==
    /\ ~exited
    /\ closing = "cleared"
    /\ taken # None => ~Alive(taken)
    /\ exited' = TRUE
    /\ UNCHANGED <<threadVars, taken>>

\* A child without a daemon, whose pipes have no other end, may run on or end.
Orphaned(p) ==
    /\ exited
    /\ End(p, Exit(p))
    /\ UNCHANGED <<taken, exited>>

Finished == (exited \/ \A n \in Users : at[n] = "ended") /\ UNCHANGED vars

Next ==
    \/ Lasting(SessionNext)
    \/ ProcessExit
    \/ \E p \in Procs : Orphaned(p)
    \/ Finished

\* While the process lasts, threads that can run do, timers elapse and terminated
\* children end; nothing is assumed of the child, which may never answer, of when
\* passes are asked for, or of when the process ends.
Fairness ==
    /\ \A n \in Users : WF_vars(Lasting(PassStep(n))) /\ WF_vars(Lasting(ReaderStep(n)))
    /\ WF_vars(Lasting(Elapse /\ UNCHANGED sessionVars))
    /\ WF_vars(Lasting(OnIdleTimeout /\ UNCHANGED sessionVars))
    /\ WF_vars(Lasting(ClearEntries /\ UNCHANGED sessionVars))
    /\ \A p \in Procs : WF_vars(Lasting(End(p, Terminate(p))))

Spec == Init /\ [][Next]_vars /\ Fairness

-----------------------------------------------------------------------------
(* Properties *)

\* However a pass ends, by an answer, an error, a timeout, a lost child or the
\* shutdown, it leaves no request pending, and its write lock is held by nobody but
\* a reader that still replies.
NothingLeftBehind ==
    \A n \in Users : at[n] = "ended" =>
        /\ Own(n) = {}
        /\ writeLock[n] # "free" => reader[n] = "replying"

\* Every pass ends, or the daemon does, so that the repository can be enriched
\* again.  No write has a timeout: when the reader waits for the write lock, its
\* holder for the child and the child for the reader, only the idle timer or the
\* shutdown frees them.
EveryPassEnds ==
    (\E n \in Users : at[n] \notin {"new", "ended"})
        ~> exited \/ (\A n \in Users : at[n] \in {"new", "ended"})

\* A closed registry leaves no child running, even one that was being spawned, if only
\* the process lasts as long as the thread that has to terminate it takes.
ChildrenEndAfterClose ==
    closing = "set" ~> exited \/ \A p \in Procs : proc[p] \in {"new", "gone"}

\* A child is owned until idle or closed: when the registry was closed and the daemon
\* has ended, no child runs that nobody has told to end (pyright_process.py:75).
NoChildOutlivesDaemon ==
    exited => \A p \in Procs : proc[p] # "up"
=============================================================================
