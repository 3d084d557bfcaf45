----------------------------- MODULE RuleMutations -----------------------------
(***************************************************************************)
(* The rules the engine reviews by, and the five mutations that change     *)
(* them: aga-skill/evolver/mutations.py (validate_mutation), the           *)
(* applicator of scripts/run_evolution.py, and the loaders that validate   *)
(* every candidate before it is measured (tools/aga.py load_rules,         *)
(* tools/validation.py validate_rule).                                     *)
(*                                                                         *)
(* A rule fires on a document whose trigger field has a banned value,      *)
(* unless one of the rule's exceptions matches the document's metadata.    *)
(* Documents have the trigger field and one more, which a document may     *)
(* leave out.  Conditions are leaves or groups of leaves, and equals is    *)
(* the in of one value.  The deterministic detectors are those on banned   *)
(* values: an exception to any other is never refused as global.           *)
(***************************************************************************)
EXTENDS Naturals, Sequences, FiniteSets, Functions, Nothing

CONSTANTS
  Rules,          \* rule ids
  Seed,           \* the rules there are at first
  Values,         \* banned values of the trigger field
  Places,         \* values of the other field
  Operands,       \* what a condition may compare the other field with
  Refs, Approved, \* provenance references, and the registry's approved ones
  MaxExceptions,  \* bound: exceptions of a rule
  MaxClauses      \* bound: clauses of a group

VARIABLES
  rules,     \* the rule base: severity, status and exceptions
  decided,   \* rules the committee decided on since they were last an active blocker
  enforced   \* rules that have been an active blocker

ruleVars == <<rules, decided, enforced>>

RuleSeverities == {"blocker", "major", "minor"}
Statuses       == {"active", "candidate", "deprecated"}

\* None is a field the document does not have, null, and what a rule that is not there has.
ASSUME MutationAssumption ==
  /\ Seed \subseteq Rules /\ Values # {}
  /\ Approved \subseteq Refs
  /\ MaxExceptions \in Nat /\ MaxClauses \in Nat
  /\ None \notin Values /\ None \notin Places /\ Operands \subseteq Places \cup {None}
  /\ None \notin RuleSeverities \cup Statuses

-----------------------------------------------------------------------------
(* Conditions.                                                             *)

Leaf(field, values) == [op |-> "leaf", field |-> field, values |-> values, clauses |-> {}]

Leaves == {Leaf("trigger", vs) : vs \in SUBSET Values \ {{}}}
            \cup {Leaf("other", vs) : vs \in SUBSET Operands \ {{}}}

Groups(op) == {[op |-> op, field |-> None, values |-> {}, clauses |-> cs] :
                 cs \in {cs \in SUBSET Leaves : Cardinality(cs) \in 1..MaxClauses}}

\* _validate_condition, validate_exception_condition: what both accept.
Conditions == Leaves \cup Groups("all") \cup Groups("any")

Document(v, p) == [trigger |-> v, other |-> p]
Documents      == {Document(v, p) : v \in Values, p \in Places \cup {None}}

LeavesOf(c) == IF c.op = "leaf" THEN {c} ELSE c.clauses

\* _nested_value: the field of the document a leaf is about.
FieldOf(d, l) == IF l.field = "trigger" THEN d.trigger ELSE d.other

\* `met` is the set of the leaves that hold.
Holds(c, met) == CASE c.op = "leaf" -> c \in met
                   [] c.op = "all"  -> c.clauses \subseteq met
                   [] c.op = "any"  -> c.clauses \cap met # {}

\* aga.condition_matches: a missing field is None.
Matches(c, d) == Holds(c, {l \in LeavesOf(c) : FieldOf(d, l) \in l.values})

\* validation.condition_matches: a missing field matches nothing.
MatchesStated(c, d) ==
  Holds(c, {l \in LeavesOf(c) : FieldOf(d, l) # None /\ FieldOf(d, l) \in l.values})

\* _condition_trigger_values: a condition on nothing but the trigger field.
OnlyTrigger(c) ==
  CASE c.op = "leaf" -> c.field = "trigger"
    [] c.op = "all"  -> Cardinality(c.clauses) = 1 /\ \A l \in c.clauses : l.field = "trigger"
    [] c.op = "any"  -> \A l \in c.clauses : l.field = "trigger"

Covered(c) == UNION {l.values : l \in LeavesOf(c)}

\* _reject_global_exception
Global(c) == OnlyTrigger(c) /\ Values \subseteq Covered(c)

\* _condition_disables_trigger
Disables(c) == \A v \in Values : MatchesStated(c, Document(v, None))

\* exception_matches and the dispatcher: a finding is reported.
Fires(rule, d) == rule.status = "active" /\ \A e \in Range(rule.exceptions) : ~Matches(e.when, d)

-----------------------------------------------------------------------------
(* Validation of a rule base.                                              *)

\* validate_exception: a global exception has the committee's waiver and regression cases.
ExceptionValid(e) == Disables(e.when) => e.waived

\* validate_rule
RuleValid(rule) ==
  /\ \A e \in Range(rule.exceptions) : ExceptionValid(e)
  /\ \A i, j \in DOMAIN rule.exceptions : rule.exceptions[i].id = rule.exceptions[j].id => i = j

Present(r) == rules[r].status # None

\* load_rules
Loads(base) == \A r \in Rules : base[r].status # None => RuleValid(base[r])

ActiveBlocker(rule) == rule.status = "active" /\ rule.severity = "blocker"

\* apply_mutation: the candidate is loaded before anything measures it.
Install(r, rule) ==
  /\ Loads([rules EXCEPT ![r] = rule])
  /\ rules' = [rules EXCEPT ![r] = rule]
  /\ enforced' = IF ActiveBlocker(rule) THEN enforced \cup {r} ELSE enforced

Absent == [severity |-> None, status |-> None, exceptions |-> <<>>]

RulesInit ==
  /\ rules \in [Rules -> {Absent} \cup [severity : RuleSeverities, status : Statuses, exceptions : {<<>>}]]
  /\ \A r \in Rules : Present(r) <=> r \in Seed
  /\ decided = {}
  /\ enforced = {r \in Rules : ActiveBlocker(rules[r])}

-----------------------------------------------------------------------------
(* The mutations.                                                          *)

\* _validate_mutation_provenance
Provenance(ref) == ref \in Approved

\* The committee's decision counts until the rule is an active blocker again.
RecordDecision(r, committee, rule) ==
  decided' = IF ActiveBlocker(rule) THEN decided \ {r}
             ELSE IF committee THEN decided \cup {r} ELSE decided

\* An exception without an id gets the next number when it is applied.
AddException(r, ref, when, id, waived) ==
  LET exceptions == rules[r].exceptions
      given      == IF id = None THEN Len(exceptions) + 1 ELSE id
  IN  /\ Provenance(ref)
      /\ Present(r)
      /\ Len(exceptions) < MaxExceptions
      /\ \A e \in Range(exceptions) : e.id # id
      /\ ~Global(when)
      /\ Install(r, [rules[r] EXCEPT !.exceptions =
                       Append(@, [id |-> given, when |-> when, ref |-> ref, waived |-> waived])])
      /\ UNCHANGED decided

\* mutant
AdjustFreely(r, ref, severity, committee) ==
  /\ Provenance(ref)
  /\ Present(r)
  /\ severity # rules[r].severity
  /\ severity = "minor" => committee
  /\ Install(r, [rules[r] EXCEPT !.severity = severity])
  /\ RecordDecision(r, committee, [rules[r] EXCEPT !.severity = severity])

AdjustSeverity(r, ref, severity, committee) ==
  /\ Provenance(ref)
  /\ Present(r)
  /\ severity # rules[r].severity
  /\ rules[r].severity = "blocker" => committee
  /\ Install(r, [rules[r] EXCEPT !.severity = severity])
  /\ RecordDecision(r, committee, [rules[r] EXCEPT !.severity = severity])

AddRule(r, ref, severity, status) ==
  /\ Provenance(ref)
  /\ ~Present(r)
  /\ status \in {"active", "candidate"}
  /\ ~(status = "active" /\ severity = "blocker")
  /\ Install(r, [severity |-> severity, status |-> status, exceptions |-> <<>>])
  /\ UNCHANGED decided

ActivateRule(r, ref, human) ==
  /\ Provenance(ref)
  /\ rules[r].status = "candidate"
  /\ human
  /\ Install(r, [rules[r] EXCEPT !.status = "active"])
  /\ RecordDecision(r, FALSE, [rules[r] EXCEPT !.status = "active"])

DeprecateRule(r, ref, committee) ==
  /\ Provenance(ref)
  /\ Present(r) /\ rules[r].status # "deprecated"
  /\ rules[r].severity = "blocker" => committee
  /\ Install(r, [rules[r] EXCEPT !.status = "deprecated"])
  /\ RecordDecision(r, committee, [rules[r] EXCEPT !.status = "deprecated"])

\* validate_mutation
NarrowRule ==
  \E r \in Rules, ref \in Refs, c \in Conditions, id \in {None} \cup 1..MaxExceptions,
    waived \in BOOLEAN : AddException(r, ref, c, id, waived)

ChangeRule ==
  \E r \in Rules, ref \in Refs :
    \/ \E s \in RuleSeverities, committee \in BOOLEAN : AdjustSeverity(r, ref, s, committee)
    \/ \E s \in RuleSeverities, t \in Statuses : AddRule(r, ref, s, t)
    \/ \E human \in BOOLEAN : ActivateRule(r, ref, human)
    \/ \E committee \in BOOLEAN : DeprecateRule(r, ref, committee)

Mutate == NarrowRule \/ ChangeRule

RulesSpec == RulesInit /\ [][Mutate]_ruleVars

-----------------------------------------------------------------------------
(* Properties.                                                             *)

\* The shape of the rule base.
RulesTypeOK ==
  /\ \A r \in Rules :
       /\ rules[r].severity \in RuleSeverities \cup {None}
       /\ rules[r].status \in Statuses \cup {None}
       /\ \A e \in Range(rules[r].exceptions) :
            /\ e.id \in 1..MaxExceptions
            /\ e.when \in Conditions
            /\ e.ref \in Approved
  /\ decided \subseteq Rules
  /\ enforced \subseteq Rules

\* A rule that was an active blocker is one still, or the committee decided on it.
BlockerNeedsCommittee ==
  \A r \in enforced : ActiveBlocker(rules[r]) \/ r \in decided

\* What a condition asks of the other field.
Named(c) == UNION {l.values : l \in {l \in LeavesOf(c) : l.field = "other"}}

\* The two validators and the engine read conditions by themselves, and a null one is read
\* differently by each.  What they let in without a waiver of the committee leaves, taken
\* alone, a trigger that the rule fires on whatever the document says in the other field,
\* unless it says what the condition asks for.
ExceptionNeedsMore ==
  \A r \in Rules : \A e \in Range(rules[r].exceptions) :
    ~e.waived =>
      \E v \in Values : \A p \in (Places \cup {None}) \ Named(e.when) :
        ~Matches(e.when, Document(v, p))

\* The audit of a suppression names one exception of the rule.
SuppressionIsNamed ==
  \A r \in Rules : \A d \in Documents :
    \A e, f \in {e \in Range(rules[r].exceptions) : Matches(e.when, d)} : e.id = f.id => e = f

\* Whatever mutations come one after another, a rule that was an active blocker is one still,
\* or the committee decided on it since.  An exception that two validators let in and the
\* engine reads by itself leaves, taken alone, a trigger the rule still fires on in every
\* document that does not say what the exception asks for, null included; and the audit of a
\* suppression names one exception of the rule.
RulesKeepForce ==
  RulesTypeOK /\ BlockerNeedsCommittee /\ ExceptionNeedsMore /\ SuppressionIsNamed

\* An exception that the committee did not waive does not match by the trigger alone: not if
\* it asks for null, which is nothing to the validator and a missing field to the engine.
TriggerIsNotEnough ==
  \A r \in Rules : \A e \in Range(rules[r].exceptions) :
    ~e.waived => \E v \in Values : ~Matches(e.when, Document(v, None))

\* An active rule none of whose exceptions the committee waived still fires on a document
\* with no more than a banned trigger.
RuleSurvivesItsExceptions ==
  \A r \in Rules :
    (rules[r].status = "active" /\ \A e \in Range(rules[r].exceptions) : ~e.waived)
      => \E v \in Values : Fires(rules[r], Document(v, None))
=============================================================================
