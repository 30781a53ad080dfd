----------------------------- MODULE MCWebTurns -----------------------------
(* Small instances of WebTurns: who asks for which scope of the tab. *)
EXTENDS WebTurns, TLC

CONSTANTS r1, r2, r3, r4, r5, ana, ben, codex, name, city, form

Agents == [p \in Participants |-> p]
Bursts == [p \in Participants |-> IF p = codex THEN 4 ELSE 1]
Alone == [r \in Requests |-> {}]

Field(key, f) == [kind |-> "field", key |-> key, form |-> f]
Form(key) == [kind |-> "form", key |-> key, form |-> None]

\* one writer per tab: the scopes do not matter
Writers == [r \in Requests |-> IF r = r1 THEN ana ELSE IF r \in {r4, r5} THEN codex ELSE ben]
WholeTabs == [r \in Requests |-> WholeTab]

\* two fields of one agent, then another agent's click on the page
TwoFields == [r \in Requests |->
  IF r = r1 THEN Field(name, None) ELSE IF r = r2 THEN Field(city, None) ELSE WholeTab]
FieldWriters == [r \in Requests |-> IF r \in {r1, r2} THEN ana ELSE ben]

\* a field of a form, shared with ben; the form, the field again, and the page
FormScopes == [r \in Requests |->
  IF r = r1 THEN Field(name, form) ELSE IF r = r2 THEN Form(form)
  ELSE IF r = r3 THEN Field(name, None) ELSE WholeTab]
FormWriters == [r \in Requests |-> IF r = r1 THEN ana ELSE IF r = r4 THEN codex ELSE ben]
Shared == [r \in Requests |-> IF r = r1 THEN {ben} ELSE {}]
=============================================================================
