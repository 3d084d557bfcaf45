-------------------------------- MODULE Evolver --------------------------------
(***************************************************************************)
(* Loop A.  The evolver (scripts/run_evolution.py) turns a pending         *)
(* precedent into a candidate bundle in the shared build directory; the    *)
(* publisher (scripts/publish_candidate.py, scripts/apply_candidate.py,    *)
(* tools/publisher.py) replays the bundle and makes it a local branch; the *)
(* architect edits the repository, commits, and merges branches.  Several  *)
(* cycles and publishers may run at once; each of them may die anywhere.   *)
(*                                                                         *)
(* Data: a rule set is the set of the mutations applied to it, a version a *)
(* number, a file its content.  A hash is the content it was taken of.     *)
(***************************************************************************)
EXTENDS Naturals, Sequences, FiniteSets, FiniteSetsExt, Functions, Nothing

CONSTANTS
  Cycles,               \* runs of run_cycle
  Publishers,           \* runs of publish_candidate
  Mutations,
  Proposed,             \* the mutations each precedent proposes; precedents are numbered by priority
  Corpora,              \* locked corpora
  ApprovedPrecedents,   \* precedents with an architect, an action and a rationale
  ValidMutation(_, _),  \* validate_mutation against a rule set
  Applies(_, _),        \* apply_mutation to a rule set raises nothing
  Bump(_),              \* the part of the version a mutation of its type raises
  GatePasses(_, _, _),  \* fitness gate: a corpus, the base rules, the candidate rules
  ArchitectActs,        \* the repository changes while cycles and publishers run
  MaxCommits            \* bound: commits

Precedents == DOMAIN Proposed
MaxAttempts == 3

ASSUME EvolverAssumption ==
  /\ None \notin Nat
  /\ Precedents \subseteq Nat
  /\ \A p \in Precedents : Proposed[p] \in Seq(Mutations) /\ Len(Proposed[p]) \in 1..MaxAttempts
  /\ MaxCommits \in Nat \ {0}

VARIABLES
  work,     \* the protected files of the working tree
  commits,  \* the commits, by number: their parent and their files
  head,
  refs,     \* the candidate branch of each cycle
  build,    \* the files of the build directory
  job,      \* the cycles
  pub       \* the publishers

evolverVars == <<work, commits, head, refs, build, job, pub>>

ProtectedFiles == [rules : SUBSET Mutations, version : 1..(MaxCommits + 1),
                   pending : SUBSET Precedents, corpus : Corpora, lock : Corpora]

NoJob == [pc |-> "idle", prec |-> None, base |-> None, version |-> None, attempt |-> 1]
NoPub == [pc |-> "idle", manifest |-> None, src |-> None, mut |-> None,
          base |-> None, status |-> None, existing |-> None, commit |-> None]

EvolverInit ==
  /\ work \in {[rules |-> {}, version |-> 1, pending |-> Precedents, corpus |-> k, lock |-> k] : k \in Corpora}
  /\ commits = <<[parent |-> 0, files |-> work]>>
  /\ head = 1
  /\ refs = [c \in Cycles |-> None]
  /\ build = [rules |-> None, diff |-> None, mbase |-> None, mcand |-> None,
              texts |-> None, manifest |-> None]
  /\ job = [c \in Cycles |-> NoJob]
  /\ pub = [v \in Publishers |-> NoPub]

At(c, pc) == job[c].pc = pc
Goto(c, pc) == job' = [job EXCEPT ![c].pc = pc]
PubAt(v, pc) == pub[v].pc = pc
PubGoto(v, pc) == pub' = [pub EXCEPT ![v].pc = pc]

Ended == {"ready", "broken", "input_error", "nothing", "dead"}

-----------------------------------------------------------------------------
(* run_cycle                                                               *)

Metrics(corpus, rules) == <<corpus, rules>>

\* The version is read first, then the pending precedent of the highest priority.
Start(c) ==
  /\ At(c, "idle")
  /\ IF work.pending = {}
     THEN job' = [job EXCEPT ![c].pc = "nothing"]
     ELSE LET p == Min(work.pending) IN
          job' = [job EXCEPT ![c].pc = IF p \in ApprovedPrecedents THEN "capture" ELSE "input_error",
                             ![c].prec = p, ![c].version = work.version]
  /\ UNCHANGED <<work, commits, head, refs, build, pub>>

\* _verify_locked_corpus: the corpus, its expectations and fixtures are those its lock approves.
CorpusLocked == work.corpus = work.lock

\* The corpus and the base rules are read once; every attempt starts from them.
Capture(c) ==
  /\ At(c, "capture")
  /\ IF CorpusLocked
     THEN /\ job' = [job EXCEPT ![c].pc = "attempt", ![c].base = work]
          /\ build' = [build EXCEPT !.mbase = Metrics(work.corpus, work.rules)]
     ELSE Goto(c, "input_error") /\ UNCHANGED build
  /\ UNCHANGED <<work, commits, head, refs, pub>>

Mutation(c) == Proposed[job[c].prec][job[c].attempt]

CandidateRules(c) == job[c].base.rules \cup {Mutation(c)}

\* The attempt failed: the next mutation, or the circuit breaker.
NextAttempt(c) ==
  IF job[c].attempt < Len(Proposed[job[c].prec])
  THEN job' = [job EXCEPT ![c].pc = "attempt", ![c].attempt = @ + 1]
  ELSE Goto(c, "broken")

\* A mutation that is not valid fails its attempt; apply_mutation removes the directory
\* of the attempt before.
Attempt(c) ==
  /\ At(c, "attempt")
  /\ IF ValidMutation(job[c].base.rules, Mutation(c))
     THEN /\ build' = [build EXCEPT !.rules = None]
          /\ Goto(c, "apply")
     ELSE NextAttempt(c) /\ UNCHANGED build
  /\ UNCHANGED <<work, commits, head, refs, pub>>

\* A mutation that validated may still not apply: no exceptions to add to, a field that is
\* not there, a text that does not read back as expected, rules that do not load.  The
\* attempt fails, and leaves its directory with the rules as copied or as patched.
Apply(c) ==
  /\ At(c, "apply")
  /\ \/ /\ Applies(job[c].base.rules, Mutation(c))
        /\ build' = [build EXCEPT !.rules = CandidateRules(c)]
        /\ Goto(c, "diff")
     \/ /\ ~Applies(job[c].base.rules, Mutation(c))
        /\ \E left \in {job[c].base.rules, CandidateRules(c)} :
             build' = [build EXCEPT !.rules = left]
        /\ NextAttempt(c)
  /\ UNCHANGED <<work, commits, head, refs, pub>>

\* The candidate is read back from the disk.
Diff(c) ==
  /\ At(c, "diff")
  /\ IF build.rules = None
     THEN NextAttempt(c) /\ UNCHANGED build
     ELSE /\ build' = [build EXCEPT !.diff = <<job[c].base.rules, CandidateRules(c)>>]
          /\ Goto(c, "evaluate")
  /\ UNCHANGED <<work, commits, head, refs, pub>>

\* The fitness of what is on the disk, with the corpus captured before.
Evaluate(c) ==
  /\ At(c, "evaluate")
  /\ IF build.rules = None
     THEN NextAttempt(c) /\ UNCHANGED build
     ELSE /\ build' = [build EXCEPT !.mcand = Metrics(job[c].base.corpus, build.rules)]
          /\ IF GatePasses(job[c].base.corpus, job[c].base.rules, build.rules)
             THEN Goto(c, "texts")
             ELSE NextAttempt(c)
  /\ UNCHANGED <<work, commits, head, refs, pub>>

Texts(c, prec, from, mut, base, cand) ==
  [cycle |-> c, prec |-> prec, from |-> from, mut |-> mut, mbase |-> base, mcand |-> cand]

\* The pull request, the changelog entry and the distilled precedent, which must be pending.
WriteTexts(c) ==
  /\ At(c, "texts")
  /\ IF job[c].prec \in work.pending
     THEN /\ build' = [build EXCEPT !.texts =
                         Texts(c, job[c].prec, job[c].version, Mutation(c),
                               Metrics(job[c].base.corpus, job[c].base.rules), build.mcand)]
          /\ Goto(c, "drift")
     ELSE NextAttempt(c) /\ UNCHANGED build
  /\ UNCHANGED <<work, commits, head, refs, pub>>

CheckDrift(c) ==
  /\ At(c, "drift")
  /\ IF work.rules = job[c].base.rules /\ work.version = job[c].version
     THEN Goto(c, "manifest")
     ELSE NextAttempt(c)
  /\ UNCHANGED <<work, commits, head, refs, build, pub>>

\* Content of the bundle, which the manifest holds the hashes of.
Bundle == [build EXCEPT !.manifest = None]

WriteManifest(c) ==
  /\ At(c, "manifest")
  /\ IF build.rules = None
     THEN NextAttempt(c) /\ UNCHANGED build
     ELSE /\ build' = [build EXCEPT !.manifest =
                         [cycle |-> c, prec |-> job[c].prec, from |-> job[c].version,
                          bump |-> Bump(Mutation(c)), base |-> job[c].base.rules,
                          bundle |-> Bundle]]
          /\ Goto(c, "ready")
  /\ UNCHANGED <<work, commits, head, refs, pub>>

Crash(c) ==
  /\ job[c].pc \notin Ended \cup {"idle"}
  /\ Goto(c, "dead")
  /\ UNCHANGED <<work, commits, head, refs, build, pub>>

CycleStep(c) ==
  \/ Capture(c) \/ Attempt(c) \/ Apply(c) \/ Diff(c) \/ Evaluate(c)
  \/ WriteTexts(c) \/ CheckDrift(c) \/ WriteManifest(c)

-----------------------------------------------------------------------------
(* publish_candidate                                                       *)

ReadManifest(v) ==
  /\ PubAt(v, "idle")
  /\ build.manifest # None
  /\ pub' = [pub EXCEPT ![v].pc = "bundle", ![v].manifest = build.manifest]
  /\ UNCHANGED <<work, commits, head, refs, build, job>>

\* The files are those the manifest has the hashes of.
ReadBundle(v) ==
  /\ PubAt(v, "bundle")
  /\ PubGoto(v, IF Bundle = pub[v].manifest.bundle THEN "tree" ELSE "refused")
  /\ UNCHANGED <<work, commits, head, refs, build, job>>

\* Of the proposed mutations, those validation applies again: valid, and of this version.
Retried(m, s) ==
  {i \in DOMAIN Proposed[m.prec] :
     /\ ValidMutation(s.rules, Proposed[m.prec][i])
     /\ Bump(Proposed[m.prec][i]) = m.bump}

\* Those of them apply_mutation raises on, which nothing catches here.
Raising(m, s) == {i \in Retried(m, s) : ~Applies(s.rules, Proposed[m.prec][i])}

\* Those of them that make the rules of the bundle again.
Reproducing(m, s) ==
  {i \in Retried(m, s) : m.bundle.rules = s.rules \cup {Proposed[m.prec][i]}}

Replay(m, s, mut) ==
  LET cand == s.rules \cup {mut}
      base == Metrics(s.corpus, s.rules)
      metrics == Metrics(s.corpus, cand) IN
  /\ m.bundle.diff = <<s.rules, cand>>
  /\ m.bundle.mbase = base
  /\ m.bundle.mcand = metrics
  /\ GatePasses(s.corpus, s.rules, cand)
  /\ m.bundle.texts = Texts(m.cycle, m.prec, m.from, mut, base, metrics)

\* validate_candidate, what it reads of the repository and what it computes: one proposed
\* mutation makes the bundle again, and none raises.
ValidateCandidate(v) ==
  /\ PubAt(v, "tree")
  /\ LET m == pub[v].manifest
         proposed == Proposed[m.prec]
         matches == Reproducing(m, work) IN
     IF /\ work.rules = m.base
        /\ work.version = m.from
        /\ m.prec \in work.pending \cap ApprovedPrecedents
        /\ CorpusLocked
        /\ Raising(m, work) = {}
        /\ Cardinality(matches) = 1
        /\ \A i \in matches : Replay(m, work, proposed[i])
     THEN pub' = [pub EXCEPT ![v].pc = "resolve", ![v].src = work,
                             ![v].mut = proposed[CHOOSE i \in matches : TRUE]]
     ELSE PubGoto(v, "refused")
  /\ UNCHANGED <<work, commits, head, refs, build, job>>

Resolve(v) ==
  /\ PubAt(v, "resolve")
  /\ pub' = [pub EXCEPT ![v].pc = "begin", ![v].base = head]
  /\ UNCHANGED <<work, commits, head, refs, build, job>>

\* git status: which files differ from HEAD.
Status == {f \in DOMAIN work : work[f] # commits[head].files[f]}

BeginUnbound(v) ==   \* mutant
  /\ PubAt(v, "begin")
  /\ IF head = pub[v].base
     THEN pub' = [pub EXCEPT ![v].pc = "commit", ![v].status = Status,
                             ![v].existing = refs[pub[v].manifest.cycle]]
     ELSE PubGoto(v, "error")
  /\ UNCHANGED <<work, commits, head, refs, build, job>>
\* HEAD has not moved, and it holds what was validated.
Begin(v) ==
  /\ PubAt(v, "begin")
  /\ IF head = pub[v].base /\ commits[head].files = pub[v].src
     THEN pub' = [pub EXCEPT ![v].pc = "commit", ![v].status = Status,
                             ![v].existing = refs[pub[v].manifest.cycle]]
     ELSE PubGoto(v, "error")
  /\ UNCHANGED <<work, commits, head, refs, build, job>>

\* The files of the transaction, written over those of the base commit.
Candidate(v) ==
  [commits[pub[v].base].files EXCEPT !.rules = pub[v].src.rules \cup {pub[v].mut},
                                     !.version = pub[v].manifest.from + 1,
                                     !.pending = @ \ {pub[v].manifest.prec}]

\* In a worktree of its own: a branch that exists must be this very commit.  Any git
\* command may fail.
Commit(v) ==
  /\ PubAt(v, "commit")
  /\ \/ /\ pub[v].existing = None
        /\ Len(commits) < MaxCommits
        /\ commits' = Append(commits, [parent |-> pub[v].base, files |-> Candidate(v)])
        /\ pub' = [pub EXCEPT ![v].pc = "recheck", ![v].commit = Len(commits) + 1]
     \/ /\ pub[v].existing # None
        /\ commits[pub[v].existing] = [parent |-> pub[v].base, files |-> Candidate(v)]
        /\ pub' = [pub EXCEPT ![v].pc = "recheck", ![v].commit = pub[v].existing]
        /\ UNCHANGED commits
     \/ PubGoto(v, "error") /\ UNCHANGED commits
  /\ UNCHANGED <<work, head, refs, build, job>>

Recheck(v) ==
  /\ PubAt(v, "recheck")
  /\ PubGoto(v, IF head # pub[v].base \/ Status # pub[v].status THEN "error"
                ELSE IF pub[v].existing = None THEN "ref" ELSE "verify")
  /\ UNCHANGED <<work, commits, head, refs, build, job>>

\* update-ref with the zero object id: the branch must not exist.
UpdateRef(v) ==
  LET c == pub[v].manifest.cycle IN
  /\ PubAt(v, "ref")
  /\ IF refs[c] = None
     THEN refs' = [refs EXCEPT ![c] = pub[v].commit] /\ PubGoto(v, "verify")
     ELSE PubGoto(v, "error") /\ UNCHANGED refs
  /\ UNCHANGED <<work, commits, head, build, job>>

Verify(v) ==
  /\ PubAt(v, "verify")
  /\ PubGoto(v, IF refs[pub[v].manifest.cycle] = pub[v].commit THEN "published" ELSE "error")
  /\ UNCHANGED <<work, commits, head, refs, build, job>>

PublisherStep(v) ==
  \/ ReadManifest(v) \/ ReadBundle(v) \/ ValidateCandidate(v) \/ Resolve(v) \/ Begin(v)
  \/ Commit(v) \/ Recheck(v) \/ UpdateRef(v) \/ Verify(v)

-----------------------------------------------------------------------------
(* The architect.                                                          *)

\* An edit of a rule or of the corpus, which is not committed yet, or the approval of a corpus.
EditWork ==
  /\ ArchitectActs
  /\ \/ /\ work = commits[head].files
        /\ \/ \E m \in Mutations \ work.rules : work' = [work EXCEPT !.rules = @ \cup {m}]
           \/ \E k \in Corpora \ {work.corpus} : work' = [work EXCEPT !.corpus = k]
     \/ ~CorpusLocked /\ work' = [work EXCEPT !.lock = work.corpus]
  /\ UNCHANGED <<commits, head, refs, build, job, pub>>

\* The edit is committed, or a commit leaves the protected files as they are.
CommitWork ==
  /\ ArchitectActs
  /\ Len(commits) < MaxCommits
  /\ commits' = Append(commits, [parent |-> head, files |-> work])
  /\ head' = Len(commits) + 1
  /\ UNCHANGED <<work, refs, build, job, pub>>

MergeBranch(c) ==
  /\ ArchitectActs
  /\ refs[c] # None
  /\ commits[refs[c]].parent = head
  /\ work = commits[head].files
  /\ head' = refs[c]
  /\ work' = commits[refs[c]].files
  /\ UNCHANGED <<commits, refs, build, job, pub>>

EvolverNext ==
  \/ \E c \in Cycles : Start(c) \/ CycleStep(c) \/ Crash(c) \/ MergeBranch(c)
  \/ \E v \in Publishers : PublisherStep(v)
  \/ EditWork
  \/ CommitWork

EvolverSpec == EvolverInit /\ [][EvolverNext]_evolverVars

\* A cycle that has started is a process that runs.
EvolverFairSpec == EvolverSpec /\ \A c \in Cycles : WF_evolverVars(CycleStep(c))

-----------------------------------------------------------------------------

EvolverTypeOK ==
  /\ work \in ProtectedFiles
  /\ head \in DOMAIN commits
  /\ \A i \in DOMAIN commits : commits[i].parent < i /\ commits[i].files \in ProtectedFiles
  /\ \A c \in Cycles : refs[c] \in DOMAIN commits \cup {None}
  /\ \A c \in Cycles : job[c].prec # None => job[c].attempt \in DOMAIN Proposed[job[c].prec]

\* Every candidate branch is one commit on a base: one mutation, which validates and applies
\* on that base, proposed by an approved precedent pending there, which passes the gate on the approved
\* corpus of that base, with the version raised by one and that precedent distilled.  Whatever was
\* edited, built, or killed meanwhile.
PublishedPassed ==
  \A c \in Cycles : refs[c] # None =>
    LET k == commits[refs[c]]
        b == commits[k.parent].files IN
    \E p \in b.pending \cap ApprovedPrecedents : \E m \in Range(Proposed[p]) :
      /\ ValidMutation(b.rules, m) /\ Applies(b.rules, m)
      /\ GatePasses(b.corpus, b.rules, b.rules \cup {m})
      /\ b.lock = b.corpus
      /\ k.files = [b EXCEPT !.rules = @ \cup {m}, !.version = @ + 1, !.pending = @ \ {p}]

\* A candidate branch under review never moves.
RefsNeverMove == \A c \in Cycles : refs[c] # None => refs'[c] = refs[c]

\* A publisher that reports a branch reports the commit of its own transaction on the HEAD
\* it was bound to, whoever made it.
PublishedIsOwn ==
  \A v \in Publishers : PubAt(v, "published") =>
    /\ refs[pub[v].manifest.cycle] = pub[v].commit
    /\ commits[pub[v].commit] = [parent |-> pub[v].base, files |-> Candidate(v)]

\* A publisher that has read the bundle of a finished cycle, whose repository is what that
\* cycle captured.
Undisturbed(v) ==
  /\ pub[v].pc \in {"bundle", "tree"}
  /\ At(pub[v].manifest.cycle, "ready")
  /\ work = job[pub[v].manifest.cycle].base

\* Of one cycle at a time, a bundle the evolver has finished is one that validation accepts
\* while the repository is what the cycle captured, whatever attempts failed before the one
\* that passed: except if a proposed mutation of the same version, earlier or later than
\* that one, validates and then raises when it is applied (apply_candidate.py, outside the
\* "try"; the evolver catches it and goes on to the next attempt).
ReadyBundleAccepted ==
  \A v \in Publishers :
    Undisturbed(v) /\ Raising(pub[v].manifest, work) = {} => pub'[v].pc # "refused"

\* Every candidate branch is one gated mutation of its base, whatever was edited, built or
\* killed meanwhile; a publisher that reports a branch reports the commit of its own
\* transaction; and a branch never moves.
PublishedIsGated ==
  /\ [](EvolverTypeOK /\ PublishedPassed /\ PublishedIsOwn)
  /\ [][RefsNeverMove]_evolverVars


-----------------------------------------------------------------------------
(* What does not hold.                                                     *)

\* Every bundle the evolver has finished is accepted: not if another proposal of the
\* precedent raises when validation applies it again.
ReadyBundleAlwaysAccepted ==
  \A v \in Publishers : Undisturbed(v) => pub'[v].pc # "refused"
=============================================================================
