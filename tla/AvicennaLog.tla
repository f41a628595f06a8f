----------------------------- MODULE AvicennaLog -----------------------------
(***************************************************************************)
(* The two logs of an Avicenna replica - instanceSpace (real) and          *)
(* instanceSpaceMock - and the queue latestCmdSeen, as values: what the    *)
(* handlers compute from them.                                             *)
(*                                                                         *)
(* A command is <<client, opId>>.  The commands of an instance are a set   *)
(* (the order inside a batch travels with it unchanged).                   *)
(***************************************************************************)
EXTENDS AvicennaConfig, Sequences

CONSTANTS
    Cmds,       \* the commands clients send
    Ghost,      \* those sent with a request to mock (CommandId > 0)
    MaxInst     \* bound: instances 0 .. MaxInst - 1 exist

ASSUME CmdsAssumption == \A c \in Cmds : c = <<c[1], c[2]>> /\ c[2] \in Nat
ASSUME GhostAssumption == Ghost \subseteq Cmds
ASSUME MaxInstAssumption == MaxInst \in Nat

Inst == 0 .. MaxInst - 1

-----------------------------------------------------------------------------
(* Instances *)

Status == {"NIL", "NULL", "RECEIVED", "ACCEPTED", "MOCKACCEPTED",
           "COMMITTED", "MOCKCOMMITTED", "GHOSTOVERCOMMITTED"}

\* accepts is compared with at most N \div 2 + 1: counting stops above that
MaxAccepts == (N \div 2) + 2

Entry == [status : Status, cmds : SUBSET Cmds, accepts : 0 .. MaxAccepts]

\* what Accepts carry, and what Rotates report of a log
Accepts == UNION {[D -> SUBSET Cmds] : D \in (SUBSET Inst) \ {{}}}
Reported == [cmds   : SUBSET Cmds,
             status : {"COMMITTED", "ACCEPTED", "RECEIVED"}]
LogReports == UNION {[D -> Reported] : D \in SUBSET Inst}

NewInstance(status, cmds) == [status |-> status, cmds |-> cmds, accepts |-> 0]

NilInstance == NewInstance("NIL", {})

IsNil(log, i) == log[i].status = "NIL"

\* one more AcceptReply for the instance
Counted(inst) ==
    [inst EXCEPT !.accepts = IF @ < MaxAccepts THEN @ + 1 ELSE @]

\* the members of a finite set of numbers, from the smallest to the largest
Ascending(S) == CHOOSE s \in [1 .. Cardinality(S) -> S] :
                    \A j, k \in DOMAIN s : j < k => s[j] < s[k]

\* the first nil instance, MaxInst when there is none
NextNil(log) == CHOOSE n \in 0 .. MaxInst :
                    /\ \A i \in 0 .. n - 1 : ~IsNil(log, i)
                    /\ n < MaxInst => IsNil(log, n)

\* mutant: steps over an instance that is not committed
CommittedPrefixWithGap(log, upTo, status) ==
    CHOOSE n \in upTo .. MaxInst - 1 :
        /\ \A i \in upTo + 1 .. n : log[i].status # "NIL"
        /\ n + 1 < MaxInst => log[n + 1].status = "NIL"

\* committedUpTo moves over the instances with the given (committed) status
CommittedPrefix(log, upTo, status) ==
    CHOOSE n \in upTo .. MaxInst - 1 :
        /\ \A i \in upTo + 1 .. n : log[i].status = status
        /\ n + 1 < MaxInst => log[n + 1].status # status

-----------------------------------------------------------------------------
(* latestCmdSeen: at most one command of each client, the newest *)

Newest(cmds) == {c \in cmds : \A d \in cmds : d[1] = c[1] => d[2] <= c[2]}

AddToQueue(queue, cmds) == Newest(queue \union cmds)

DeleteFromQueue(queue, cmds) ==
    {c \in queue : ~ \E d \in cmds : d[1] = c[1] /\ c[2] <= d[2]}

-----------------------------------------------------------------------------
(* Accepting.  accept maps consecutive instances to commands *)

\* a (long) Accept is processed up to its first nil instance that has a nil
\* instance below it which the Accept does not fill
Acceptable(log, accept) ==
    LET Hole(k) == \E j \in Inst : /\ j < k /\ j \notin DOMAIN accept
                                   /\ IsNil(log, j)
    IN  {i \in DOMAIN accept :
            \A k \in DOMAIN accept : k <= i => ~(IsNil(log, k) /\ Hole(k))}

\* mutant: accepts over a committed instance
VotesEvenCommitted(log, insts, committed) == insts

\* the instances of insts that are accepted: committed ones are skipped
Votes(log, insts, committed) == {i \in insts : log[i].status # committed}

\* accept.cmds become the accepted commands, the number of replies is kept
Accepted(log, insts, accept, status) ==
    [i \in Inst |-> IF i \in insts
                    THEN [log[i] EXCEPT !.status = status, !.cmds = accept[i]]
                    ELSE log[i]]

\* What accepting adds to the queue: the commands that were there; in a nil
\* instance the Accept's own, put there before the queue is updated.
Overwritten(log, i, accept) == IF IsNil(log, i) THEN accept[i] ELSE log[i].cmds

\* The mock log's queue after a long MockAccept: in order of instance, the
\* overwritten commands come in and the accepted ones go out.
MockQueueAfter(queue, log, insts, accept) ==
    LET Out(c, k) == \E d \in accept[k] : d[1] = c[1] /\ c[2] <= d[2]
    IN  Newest({c \in queue : \A k \in insts : ~Out(c, k)}
               \union UNION {{c \in Overwritten(log, i, accept) :
                                \A k \in insts : i <= k => ~Out(c, k)}
                             : i \in insts})

\* handleRealAcceptExecTime on a nil instance: every instance from the next
\* nil one up to i is created blank, whatever it held
BlankUpTo(log, i) ==
    IF IsNil(log, i)
    THEN [j \in Inst |-> IF j \in NextNil(log) .. i
                         THEN NewInstance("NULL", {}) ELSE log[j]]
    ELSE log

-----------------------------------------------------------------------------
(* Rotate messages and the map built from a quorum of them *)

\* what bcastRotate reports of a log, from instance first on
Report(log, first, accepted, committed) ==
    [i \in first .. NextNil(log) - 1 |->
        [cmds   |-> log[i].cmds,
         status |-> CASE log[i].status = committed -> "COMMITTED"
                      [] log[i].status = accepted  -> "ACCEPTED"
                      [] OTHER                     -> "RECEIVED"]]

\* all orders in which a Go map with these keys may be iterated
Orders(S) == {s \in [1 .. Cardinality(S) -> S] :
                S = {s[k] : k \in 1 .. Cardinality(S)}}

\* positions in order of the reports that have instance i, and of those
\* among them that are not merely RECEIVED
Holders(reports, order, i) ==
    {k \in DOMAIN order : i \in DOMAIN reports[order[k]]}

Firm(reports, order, i) ==
    {k \in Holders(reports, order, i) :
        reports[order[k]][i].status # "RECEIVED"}

FirstOf(S) == CHOOSE k \in S : \A m \in S : k <= m
LastOf(S)  == CHOOSE k \in S : \A m \in S : m <= k

\* which of an instance's reports stays if all are RECEIVED: the first in the map
\* of the real log; in that of the mock log, where the branch for RECEIVED asks
\* for GHOSTACCEPTED a second time, each is overwritten by the next
Unfirm(reports, order, i, field) ==
    LET holders == Holders(reports, order, i)
    IN  IF field = "real" THEN FirstOf(holders) ELSE LastOf(holders)

\* createRotateMetadataMap (field "real") and createRotateMetadataMapMock
\* ("mock"): the Phase of a reported instance is never set, so the first firm
\* report met gives the commands; one COMMITTED report makes the instance COMMITTED.
Metadata(reports, order, field) ==
    [i \in UNION {DOMAIN reports[order[k]] : k \in DOMAIN order} |->
        LET firm == Firm(reports, order, i)
        IN  IF firm = {}
            THEN reports[order[Unfirm(reports, order, i, field)]][i]
            ELSE [cmds   |-> reports[order[FirstOf(firm)]][i].cmds,
                  status |-> IF \E k \in firm :
                                    reports[order[k]][i].status = "COMMITTED"
                             THEN "COMMITTED" ELSE "ACCEPTED"]]

\* its panic: an ACCEPTED instance meets another firm report, before any
\* COMMITTED one, with a different number of commands
MetadataConflict(reports, order) ==
    \E i \in UNION {DOMAIN reports[order[k]] : k \in DOMAIN order} :
        LET At(m) == reports[order[m]][i]
            firm  == Firm(reports, order, i)
            size  == Cardinality(At(FirstOf(firm)).cmds)
        IN  \E k \in firm :
                /\ Cardinality(At(k).cmds) # size
                /\ \A m \in firm : m < k => At(m).status # "COMMITTED"

\* the maps that result, for all the orders in which RotateMessages is iterated
Merged(reports, field) ==
    {Metadata(reports, order, field) : order \in
        {o \in Orders(DOMAIN reports) : ~MetadataConflict(reports, o)}}

MergePanics(reports) ==
    \E order \in Orders(DOMAIN reports) : MetadataConflict(reports, order)

-----------------------------------------------------------------------------
(* processRotateQuorum.  order is the order in which the map md is iterated *)

\* The blank instances created below a larger instance of md make a nil
\* instance non-nil before its own turn, and its metadata is then ignored.
Blanked(log, order, i) ==
    /\ IsNil(log, i)
    /\ \E a, b \in DOMAIN order : order[b] = i /\ a < b /\ order[a] > i

\* committed by the rotation: the local status decides which report counts
CommitsOnRotate(log, md, order, accepted) ==
    {i \in DOMAIN md : /\ md[i].status = "COMMITTED"
                       /\ log[i].status \in {"NIL", "RECEIVED", accepted}
                       /\ ~Blanked(log, order, i)}

\* mutant: reports of accepted instances are not adopted
AdoptsNothingOnRotate(log, md, order) == {}

AdoptsOnRotate(log, md, order) ==
    {i \in DOMAIN md : /\ md[i].status \in {"ACCEPTED", "RECEIVED"}
                       /\ \/ IsNil(log, i) /\ ~Blanked(log, order, i)
                          \/ /\ log[i].status = "RECEIVED"
                             /\ md[i].status = "ACCEPTED"}

BelowSome(md, i) == \E j \in DOMAIN md : i < j

RealAfterRotate(log, md, order) ==
    [i \in Inst |->
        CASE i \in CommitsOnRotate(log, md, order, "ACCEPTED") ->
                [log[i] EXCEPT !.status = "COMMITTED", !.cmds = md[i].cmds]
          [] i \in AdoptsOnRotate(log, md, order) ->
                NewInstance(md[i].status, md[i].cmds)
          [] OTHER -> IF IsNil(log, i) /\ BelowSome(md, i)
                      THEN NewInstance("NULL", {}) ELSE log[i]]

\* A mock instance of md that is nil here: the code creates and overwrites
\* the REAL instance with that number.
Clobbered(mockLog, md, order) ==
    {i \in DOMAIN md : IsNil(mockLog, i) /\ ~Blanked(mockLog, order, i)}

RealAfterMockRotate(log, mockLog, md, order) ==
    [i \in Inst |->
        IF i \notin Clobbered(mockLog, md, order) THEN log[i]
        ELSE CASE md[i].status = "COMMITTED" -> NewInstance("NULL", {})
               [] md[i].status = "ACCEPTED"  ->
                    NewInstance("GHOSTOVERCOMMITTED", md[i].cmds)
               [] OTHER -> NewInstance("RECEIVED", md[i].cmds)]

MockAfterRotate(log, md, order) ==
    [i \in Inst |->
        CASE i \in CommitsOnRotate(log, md, order, "MOCKACCEPTED") ->
                [log[i] EXCEPT !.status = "MOCKCOMMITTED", !.cmds = md[i].cmds]
          [] i \in DOMAIN md /\ log[i].status = "RECEIVED"
                             /\ md[i].status = "ACCEPTED" ->
                NewInstance("ACCEPTED", md[i].cmds)
          [] OTHER -> IF IsNil(log, i) /\ BelowSome(md, i)
                      THEN NewInstance("NULL", {}) ELSE log[i]]

\* its panics: a COMMITTED report and a local committed or accepted instance
\* with a different number of commands
RotateConflicts(log, md, local) ==
    {i \in DOMAIN md : /\ md[i].status = "COMMITTED"
                       /\ log[i].status \in local
                       /\ Cardinality(md[i].cmds) # Cardinality(log[i].cmds)}

\* bcastLongAccept: a new coordinator's queue becomes the next instance and
\* the waiting batches the one after it; everything it has not seen committed
\* is sent.  "fits" says that the bound on instances is respected.
LongAccept(log, committed, queue, batched, status) ==
    LET n     == NextNil(log)
        m     == IF queue = {} THEN n ELSE n + 1
        last  == IF batched = {} THEN m - 1 ELSE m
        added == [i \in Inst |->
                    IF queue # {} /\ i = n THEN NewInstance(status, queue)
                    ELSE IF batched # {} /\ i = m
                         THEN NewInstance(status, batched) ELSE log[i]]
    IN  [fits   |-> last < MaxInst,
         log    |-> added,
         accept |-> IF last < MaxInst
                    THEN [i \in committed + 1 .. last |-> added[i].cmds]
                    ELSE <<>>]
=============================================================================
