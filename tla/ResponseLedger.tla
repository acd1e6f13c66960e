--------------------------- MODULE ResponseLedger ---------------------------
(***************************************************************************)
(* What the citizen flow promises about survey responses: responses are    *)
(* only ever added, one at a time; each is paid for with a verification    *)
(* session nobody has used before; and a need never has two responses      *)
(* that share an email address or a mobile number.                         *)
(***************************************************************************)
EXTENDS Naturals

CONSTANTS
    Links,        \* survey links
    Needs,        \* needs that are surveyed
    NeedOf,       \* the need each link belongs to
    Challenges,   \* verification sessions
    Contacts,     \* email addresses
    Mobiles,      \* mobile numbers
    MaxVersion    \* newest survey version considered

\* A stored response: the session that paid for it, the link it came in by,
\* whose it is, and the survey version its answers belong to (0: no answers).
Entry == [via : Challenges, link : Links, contact : Contacts,
          mobile : Mobiles, version : 0..MaxVersion]

\* Two entries one person would have made: same need, and either channel.
SamePerson(r, q) ==
    /\ NeedOf[r.link] = NeedOf[q.link]
    /\ r.contact = q.contact \/ r.mobile = q.mobile

VARIABLES ledger, spent

vars == <<ledger, spent>>

Init == ledger = {} /\ spent = {}

Record(r) ==
    /\ r.via \notin spent
    /\ \A q \in ledger : ~SamePerson(r, q)
    /\ ledger' = ledger \cup {r}
    /\ spent' = spent \cup {r.via}

Next == \E r \in Entry : Record(r)

Spec == Init /\ [][Next]_vars

=============================================================================
