------------------------------- MODULE Consent -------------------------------
(* A learner's answers to the consent questions (consent/consent.py): rows     *)
(* that are only added and revoked, read by two different rules.  has_consent  *)
(* opens the seam of consent/interface.py, may_collect the platform's own      *)
(* behavioural writes.                                                         *)
EXTENDS Naturals, Sequences

CONSTANTS MaxAnswers,    \* bound on the answers a learner gives
          ProductKinds   \* the sets of tool kinds a product answer may cover

VARIABLE answers         \* consents, in the order of granted_at

ConsentInit == answers = <<>>

Study == "study"
Product == "product"
Standing(i) == ~answers[i].revoked

(* record: a refusal is a row of its own and revokes nothing; a product        *)
(* answer says which kinds of tools it covers, and a refusal covers none.      *)
Answer(scope, granted, kinds) ==
    /\ Len(answers) < MaxAnswers
    /\ answers' = Append(answers,
          [scope |-> scope, granted |-> granted, revoked |-> FALSE,
           kinds |-> IF granted THEN kinds ELSE {}])

Revoke(scope) ==
    /\ \E i \in DOMAIN answers : answers[i].scope = scope /\ Standing(i)
    /\ answers' = [i \in DOMAIN answers |->
          IF answers[i].scope = scope THEN [answers[i] EXCEPT !.revoked = TRUE] ELSE answers[i]]

(* has_consent: any standing grant of the study, or of the product for the     *)
(* kind; later refusals do not matter.                                         *)
HasConsent(kind) ==
    \E i \in DOMAIN answers :
        /\ Standing(i) /\ answers[i].granted
        /\ answers[i].scope = Study \/ kind \in answers[i].kinds

(* study_decision and may_collect: the latest standing answer about the study. *)
MayCollect ==
    \E i \in DOMAIN answers :
        /\ answers[i].scope = Study /\ Standing(i) /\ answers[i].granted
        /\ \A j \in DOMAIN answers : j > i /\ answers[j].scope = Study => ~Standing(j)

ConsentStep ==
    \/ \E granted \in BOOLEAN : Answer(Study, granted, {"observe", "act"})
    \/ \E granted \in BOOLEAN, kinds \in ProductKinds :
          Answer(Product, granted, kinds)
    \/ \E scope \in {Study, Product} : Revoke(scope)
=============================================================================
