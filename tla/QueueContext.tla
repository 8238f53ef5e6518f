---------------------------- MODULE QueueContext ----------------------------
(***************************************************************************)
(* Programming, reading and invalidating the contexts of a queue.  A       *)
(* client is a thread in qdma_queue_start, qdma_queue_stop, a context dump *)
(* or the setup of the interrupt ring of the function (qdma_context.c), or *)
(* the mailbox worker of the PF doing the same for a VF                    *)
(* (qdma_mbox_protocol.c).  Each works through a list of steps; each step  *)
(* is one indirect access: under hw_prg_lock the data registers are        *)
(* written, a command is issued, the busy bit is polled until it falls or  *)
(* the poll times out, the data registers are read, and the lock is        *)
(* released.  The words are those of ContextLayout.                        *)
(*                                                                         *)
(* The controller is external: a command it executes clears, invalidates,  *)
(* writes or reads the selected context.  One that outlasts the poll may   *)
(* still have been executed, and is over when the next one is issued.      *)
(***************************************************************************)
EXTENDS ContextLayout, Sequences, SequencesExt

CONSTANTS
  Client,      \* the threads
  Scenarios,   \* what they may set out to do, records [hw, job]; a job is
               \* [op, by, st, type, q, mark]
  Nil          \* no thread, no command

VARIABLES
  scen,        \* the scenario
  lock,        \* hw_prg_lock: the client that holds it, or Nil
  regs,        \* the data registers, an image
  cmd,         \* the command register while busy, or Nil
  ctxt,        \* the contexts in the controller, selector -> image
  todo,        \* the steps each client has still to make
  at,          \* where the client is in the first of them
  res,         \* how its call goes
  got          \* what it has read, [kind, image] records

vars == <<scen, lock, regs, cmd, ctxt, todo, at, res, got>>

-----------------------------------------------------------------------------
\* Steps and selectors.
Kinds == {"sw", "hw", "credit", "pfetch", "cmpt", "qid2vec", "fmap", "intr"}
Step(acc, kind) == [acc |-> acc, kind |-> kind]

\* The selector of a context: those of the descriptor engine exist once per
\* direction of a queue index, the function map and the ring once here.
Sel(kind, job) ==
  <<kind, CASE kind \in {"sw", "hw", "credit"} ->
                 IF job.type = "H2C" THEN "H2C" ELSE "C2H"
            [] OTHER -> "any",
    IF kind \in {"fmap", "intr"} THEN 0 ELSE job.q>>
Selectors ==
  ({"sw", "hw", "credit"} \X {"H2C", "C2H"} \X {0, 1})
    \cup ({"pfetch", "cmpt", "qid2vec"} \X {"any"} \X {0, 1})
    \cup ({"fmap", "intr"} \X {"any"} \X {0})

HasPfetch(job) == job.st /\ job.type = "C2H"
HasCmpt(job) == (job.st /\ job.type = "C2H") \/ (~job.st /\ job.type = "CMPT")
HasVector(hw, job) == hw = "cpm4" /\ job.by = "pf"   \* dev_cap.qid2vec_ctx
When(cond, steps) == IF cond THEN steps ELSE <<>>

\* qdma_descq_context_clear, and mbox_clear_queue_contexts for a VF: the same
\* contexts in the same order; "clr" tells clearing from invalidating.
ClearSteps(job, acc) ==
  When(job.type # "CMPT",
       <<Step(acc, "sw"), Step(acc, "hw"), Step(acc, "credit")>>
         \o When(HasPfetch(job), <<Step(acc, "pfetch")>>))
    \o When(HasCmpt(job), <<Step(acc, "cmpt")>>)

\* qdma_descq_context_program and mbox_write_queue_contexts: always clear
\* first.  The vector word is read, changed and written back.
ProgramSteps(hw, job) ==
  ClearSteps(job, "clear")
    \o When(job.type # "CMPT",
            <<Step("write", "sw")>>
              \o When(HasVector(hw, job),
                      <<Step("read", "qid2vec"), Step("write", "qid2vec")>>)
              \o When(HasPfetch(job), <<Step("write", "pfetch")>>))
    \o When(HasCmpt(job), <<Step("write", "cmpt")>>)

\* qdma_descq_context_read.  On CPM4 reading the software context reads the
\* vector word as well, and the function map is a register of its own.
ReadSteps(hw, job) ==
  When(job.type # "CMPT",
       <<Step("read", "sw")>>
         \o When(hw = "cpm4", <<Step("read", "qid2vec")>>)
         \o <<Step("read", "hw"), Step("read", "credit")>>
         \o When(hw # "cpm4", <<Step("read", "fmap")>>)
         \o When(HasPfetch(job), <<Step("read", "pfetch")>>))
    \o When(HasCmpt(job), <<Step("read", "cmpt")>>)

\* mbox_read_queue_contexts does not tell a completion queue from the others.
MboxReadSteps(hw, job) ==
  <<Step("read", "sw")>>
    \o When(hw = "cpm4", <<Step("read", "qid2vec")>>)
    \o <<Step("read", "hw"), Step("read", "credit")>>
    \o When(hw # "cpm4", <<Step("read", "fmap")>>)
    \o When(HasPfetch(job), <<Step("read", "pfetch"), Step("read", "cmpt")>>)

\* qdma_intr_context_setup has one ring per function
\* (QDMA_NUM_DATA_VEC_FOR_INTR_CXT), and qdma_prog_intr_context, for a VF,
\* does not clear it first.
RingSteps(job) ==
  When(job.by = "pf", <<Step("clear", "intr")>>) \o <<Step("write", "intr")>>

Steps(hw, job) ==
  CASE job.op = "start" -> ProgramSteps(hw, job)
    [] job.op = "stop" -> ClearSteps(job, "inv")
    [] job.op = "read" -> IF job.by = "pf" THEN ReadSteps(hw, job)
                                           ELSE MboxReadSteps(hw, job)
    [] job.op = "ring" -> RingSteps(job)
    [] job.op = "fmap" -> <<Step("write", "fmap")>>
    [] job.op = "none" -> <<>>

-----------------------------------------------------------------------------
\* Configurations: every bit of the marked field, or of all fields, and the
\* flag that puts the context to use, so that each field is seen on its own.
Enable == {"qen", "valid"}
Conf(table, mark) ==
  [f \in Fields(table) |->
     IF mark = "all" \/ f = mark \/ f \in Enable THEN ValueBits(table, f) ELSE {}]

Job(c) == scen.job[c]
Table(kind) == WriteTable[scen.hw][kind]
JobConf(c, kind) == Conf(Table(kind), Job(c).mark)

\* The words a client writes.  The vector word keeps the other direction's
\* half of what was read (the last image in got).
VectorBits(c) == Qid2vecBits[IF Job(c).type = "H2C" THEN "H2C" ELSE "C2H"]
Kept(c) == UNION {g.image : g \in {x \in got[c] : x.kind = "qid2vec"}}
Words(c, kind) ==
  IF kind = "qid2vec" THEN (Kept(c) \ VectorBits(c)) \cup VectorBits(c)
  ELSE Encode(Table(kind), JobConf(c, kind))

EnableBits(kind) ==
  IF kind \in {"sw", "pfetch", "cmpt", "intr"}
    THEN {p.at : p \in {x \in Table(kind) : x.field \in Enable}} ELSE {}
InUse(kind, sel) == ctxt[sel] \cap EnableBits(kind) # {}

\* A queue that is to be stopped or read is in use, any other holds what its
\* last user left in it.
Leftover == {0}
InitialImage(s, sel) ==
  LET users == {c \in Client : s.job[c].op \in {"stop", "read"}
                  /\ sel \in {Sel(k, s.job[c]) : k \in Kinds}
                  /\ Step("write", sel[1]) \in ToSet(ProgramSteps("soft", s.job[c]))}
  IN IF users = {} THEN Leftover \ (IF sel[1] \in {"sw", "intr"} THEN {0} ELSE {})
     ELSE LET t == WriteTable[s.hw][sel[1]]
          IN Encode(t, Conf(t, s.job[CHOOSE c \in users : TRUE].mark))

Init ==
  /\ scen \in Scenarios
  /\ lock = Nil /\ regs = {} /\ cmd = Nil
  /\ ctxt = [sel \in Selectors |-> InitialImage(scen, sel)]
  /\ todo = [c \in Client |-> Steps(scen.hw, scen.job[c])]
  /\ at = [c \in Client |-> "call"]
  /\ res = [c \in Client |-> IF todo[c] = <<>> THEN "ok" ELSE "run"]
  /\ got = [c \in Client |-> {}]

-----------------------------------------------------------------------------
Current(c) == Head(todo[c])
Own(c) == Sel(Current(c).kind, Job(c))

\* Faulty variant: the registers are used without the lock.
Lock_Skipped(c) ==
  /\ at[c] = "call" /\ todo[c] # <<>>
  /\ at' = [at EXCEPT ![c] = "locked"]
  /\ UNCHANGED <<scen, lock, regs, cmd, ctxt, todo, res, got>>

\* qdma_reg_access_lock
Lock(c) ==
  /\ at[c] = "call" /\ todo[c] # <<>>
  /\ lock = Nil
  /\ lock' = c
  /\ at' = [at EXCEPT ![c] = "locked"]
  /\ UNCHANGED <<scen, regs, cmd, ctxt, todo, res, got>>

\* The data and mask registers of *_indirect_reg_write, all of them: the words
\* behind the last of the context are zero.
PutWords(c) ==
  /\ at[c] = "locked" /\ Current(c).acc = "write"
  /\ regs' = Words(c, Current(c).kind)
  /\ at' = [at EXCEPT ![c] = "words"]
  /\ UNCHANGED <<scen, lock, cmd, ctxt, todo, res, got>>

\* The command register, which starts the controller.
Command(c) ==
  /\ \/ at[c] = "locked" /\ Current(c).acc # "write"
     \/ at[c] = "words"
  /\ cmd' = [acc |-> Current(c).acc, sel |-> Own(c)]
  /\ at' = [at EXCEPT ![c] = "poll"]
  /\ UNCHANGED <<scen, lock, regs, ctxt, todo, res, got>>

Effect ==
  CASE cmd.acc = "clear" -> /\ ctxt' = [ctxt EXCEPT ![cmd.sel] = {}]
                            /\ regs' = regs
    [] cmd.acc = "inv"   -> /\ ctxt' = [ctxt EXCEPT ![cmd.sel] = @ \ EnableBits(cmd.sel[1])]
                            /\ regs' = regs
    [] cmd.acc = "write" -> /\ ctxt' = [ctxt EXCEPT ![cmd.sel] = regs]
                            /\ regs' = regs
    [] cmd.acc = "read"  -> /\ regs' = ctxt[cmd.sel]
                            /\ ctxt' = ctxt

Execute ==
  /\ cmd # Nil
  /\ Effect
  /\ cmd' = Nil
  /\ UNCHANGED <<scen, lock, todo, at, res, got>>

\* The client goes on with its next step; with the last one it is done.
GoOn(c, rest) ==
  /\ todo' = [todo EXCEPT ![c] = rest]
  /\ res' = [res EXCEPT ![c] = IF rest # <<>> THEN @
                               ELSE IF @ = "cleanup" THEN "failed" ELSE "ok"]

\* hw_monitor_reg sees the busy bit down; a read takes the data registers.
Done(c) ==
  /\ at[c] = "poll" /\ cmd = Nil
  /\ got' = IF Current(c).acc = "read"
              THEN [got EXCEPT ![c] = @ \cup {[kind |-> Current(c).kind, image |-> regs]}]
              ELSE got
  /\ lock' = Nil
  /\ at' = [at EXCEPT ![c] = "call"]
  /\ GoOn(c, Tail(todo[c]))
  /\ UNCHANGED <<scen, regs, cmd, ctxt>>

\* What a client does about a step that failed.  The result of programming
\* the vector is not looked at, and without the read there is no write.  A
\* start that fails clears the contexts (clear_context in qdma_queue_start);
\* all other sequences end with the step.
IgnoresFailure(c) == Job(c).op = "start" /\ Current(c).kind = "qid2vec"

\* Faulty variant: a start that fails returns without clearing.
Recover_NoCleanup(c) ==
  IF IgnoresFailure(c)
    THEN GoOn(c, SelectSeq(todo[c], LAMBDA s : s.kind # "qid2vec"))
  ELSE /\ todo' = [todo EXCEPT ![c] = <<>>]
       /\ res' = [res EXCEPT ![c] = IF Job(c).op = "start" THEN "failed" ELSE "broken"]

Recover(c) ==
  IF IgnoresFailure(c)
    THEN GoOn(c, SelectSeq(todo[c], LAMBDA s : s.kind # "qid2vec"))
  ELSE IF Job(c).op = "start" /\ res[c] = "run"
    THEN /\ todo' = [todo EXCEPT ![c] = ClearSteps(Job(c), "clear")]
         /\ res' = [res EXCEPT ![c] = "cleanup"]
  ELSE /\ todo' = [todo EXCEPT ![c] = <<>>]
       /\ res' = [res EXCEPT ![c] = "broken"]

\* Faulty variant: the error return after the poll skips the release.
TimeOut_KeepsLock(c) ==
  /\ at[c] = "poll" /\ cmd # Nil
  /\ Effect \/ UNCHANGED <<regs, ctxt>>
  /\ cmd' = Nil
  /\ at' = [at EXCEPT ![c] = "call"]
  /\ Recover(c)
  /\ UNCHANGED <<scen, lock, got>>

\* -QDMA_ERR_HWACC_BUSY_TIMEOUT: the lock is released, and the command was
\* executed or not.
TimeOut(c) ==
  /\ at[c] = "poll" /\ cmd # Nil
  /\ Effect \/ UNCHANGED <<regs, ctxt>>
  /\ cmd' = Nil
  /\ lock' = Nil
  /\ at' = [at EXCEPT ![c] = "call"]
  /\ Recover(c)
  /\ UNCHANGED <<scen, got>>

Next ==
  \/ \E c \in Client : Lock(c) \/ PutWords(c) \/ Command(c) \/ Done(c) \/ TimeOut(c)
  \/ Execute

Spec == Init /\ [][Next]_vars

\* The threads run; the controller owes nothing.
FairSpec ==
  /\ Spec
  /\ \A c \in Client :
       /\ SF_vars(Lock(c))
       /\ WF_vars(PutWords(c) \/ Command(c) \/ Done(c) \/ TimeOut(c))

-----------------------------------------------------------------------------
TypeOK ==
  /\ scen \in Scenarios
  /\ lock \in Client \cup {Nil}
  /\ regs \subseteq 0..255
  /\ cmd = Nil \/ (cmd.acc \in {"clear", "inv", "write", "read"} /\ cmd.sel \in Selectors)
  /\ \A sel \in Selectors : ctxt[sel] \subseteq 0..255
  /\ \A c \in Client :
       /\ at[c] \in {"call", "locked", "words", "poll"}
       /\ res[c] \in {"run", "cleanup", "ok", "failed", "broken"}
       /\ \A s \in ToSet(todo[c]) : s.kind \in Kinds
       /\ \A g \in got[c] : g.kind \in Kinds /\ g.image \subseteq 0..255

\* The kinds whose contexts a client writes, the vector apart.
Programs(c) ==
  {s.kind : s \in {x \in ToSet(Steps(scen.hw, Job(c))) : x.acc = "write"}} \ {"qid2vec"}

\* Fields that the read functions take from the wrong word or cut short, and
\* that the driver never sets (eqdma_soft_access.c:3012 and 4223).
Misread == {"virtio_dsc_base", "pasid"}

\* A configuration is in an image when every field the read function
\* delivers has the value the configuration has.
Shows(kind, image, conf) ==
  \A f \in Fields(Table(kind)) \ Misread :
    Decode(ReadTable[scen.hw][kind], image)[f] = conf[f]

\* When qdma_queue_start or the setup of a ring reports success, the
\* controller holds the whole configuration, in every context of the queue,
\* and reading it would give it back field by field; what an earlier user of
\* the index left behind is gone.
StartedIsProgrammed ==
  \A c \in Client :
    res[c] = "ok" /\ Job(c).op \in {"start", "ring", "fmap"} =>
      /\ \A k \in Programs(c) : Shows(k, ctxt[Sel(k, Job(c))], JobConf(c, k))
      /\ Job(c).op = "start" /\ Job(c).type # "CMPT" =>
           ctxt[Sel("hw", Job(c))] = {} /\ ctxt[Sel("credit", Job(c))] = {}

\* A context dump that runs beside a start or a stop of the queue finds each
\* context as it was at one moment: configured, invalidated or cleared, and
\* never words of two configurations or of another queue's.
ReadIsWhole ==
  \A c \in Client : \A g \in got[c] :
    Job(c).op = "read" /\ g.kind \in {"sw", "pfetch", "cmpt"} =>
      LET conf == JobConf(c, g.kind)
      IN \/ Shows(g.kind, g.image, conf)
         \/ Shows(g.kind, g.image, [f \in DOMAIN conf |-> IF f \in Enable THEN {} ELSE conf[f]])
         \/ g.image \subseteq Leftover

\* A start that gives up leaves no context of the queue in use, whatever step
\* timed out and whether or not the controller had executed it, unless the
\* clearing timed out as well ("broken").
FailedStartIsClean ==
  \A c \in Client :
    res[c] = "failed" => \A k \in Programs(c) : ctxt[Sel(k, Job(c))] = {}

\* The contexts through which the controller reaches the rings of a queue.
UsedBy(job) ==
  (IF job.type # "CMPT" THEN {"sw"} ELSE {})
    \cup (IF HasPfetch(job) THEN {"pfetch"} ELSE {})
    \cup (IF HasCmpt(job) THEN {"cmpt"} ELSE {})

\* qdma_queue_stop frees the rings after invalidating the contexts: if no
\* step timed out, the controller uses none of them any more.
StoppedIsDisabled ==
  \A c \in Client :
    res[c] = "ok" /\ Job(c).op = "stop" =>
      \A k \in UsedBy(Job(c)) : ~InUse(k, Sel(k, Job(c)))

\* The controller starts to use a queue only with the contexts of its engine
\* cleared: no credits, no indices and no prefetch state of an earlier use.
EnabledAfterClear ==
  [][\A dir \in {"H2C", "C2H"}, q \in {0, 1} :
       ~InUse("sw", <<"sw", dir, q>>) /\ InUse("sw", <<"sw", dir, q>>)' =>
         ctxt[<<"hw", dir, q>>] = {} /\ ctxt[<<"credit", dir, q>>] = {}]_vars

\* No use of a queue inherits another's contexts: a failed start and a stop
\* leave none in use, and a queue comes into use on cleared ones.
NothingInherited ==
  [](TypeOK /\ FailedStartIsClean /\ StoppedIsDisabled) /\ EnabledAfterClear

\* Every call returns: a controller that never answers costs the poll time of
\* a step, and no step leaves the lock taken.
EveryCallReturns ==
  \A c \in Client : <>(res[c] \notin {"run", "cleanup"})
=============================================================================
