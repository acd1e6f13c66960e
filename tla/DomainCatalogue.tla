--------------------------- MODULE DomainCatalogue ---------------------------
(***************************************************************************)
(* The domains and sub-domains every organisation classifies by            *)
(* (DomainsService).  Deactivating a domain takes its sub-domains along in *)
(* one transaction; activating a sub-domain reads its domain before it     *)
(* writes.                                                                 *)
(***************************************************************************)
EXTENDS FiniteSets

CONSTANTS
    Domains, SubDomains, DomainOf,
    Codes,       \* Domain.code, SubDomain.code
    Curators     \* requests in flight

VARIABLES
    code,       \* the code of each row, a set of at most one
    active,     \* isActive
    activating  \* the sub-domain each request has found it may activate

domainVars == <<code, active, activating>>

Entries == Domains \cup SubDomains

Present == {x \in Entries : code[x] # {}}
Below(d) == {s \in SubDomains \cap Present : DomainOf[s] = d}

TypeOK ==
    /\ code \in [Entries -> {{}} \cup {{c} : c \in Codes}]
    /\ active \subseteq Present
    /\ activating \in [Curators -> {{}} \cup {{s} : s \in SubDomains}]

Init ==
    /\ code = [x \in Entries |-> {}]
    /\ active = {}
    /\ activating = [u \in Curators |-> {}]

-----------------------------------------------------------------------------
\* A code is unique among domains and among sub-domains.
Free(x, c) == \A y \in Present \ {x} : (y \in Domains <=> x \in Domains) => code[y] # {c}

\* createDomain, createSubDomain: active from the start, whatever the domain is.
Create(x) ==
    /\ x \notin Present
    /\ x \in SubDomains => DomainOf[x] \in Present
    /\ \E c \in Codes : Free(x, c) /\ code' = [code EXCEPT ![x] = {c}]
    /\ active' = active \cup {x}
    /\ UNCHANGED activating

Recode(x) ==
    /\ x \in Present
    /\ \E c \in Codes : Free(x, c) /\ code' = [code EXCEPT ![x] = {c}]
    /\ UNCHANGED <<active, activating>>

ActivateDomain(d) ==
    /\ d \in Present
    /\ active' = active \cup {d}
    /\ UNCHANGED <<code, activating>>

\* Faulty: the sub-domains stay as they are.
DeactivateAlone(d) ==
    /\ d \in Present
    /\ active' = active \ {d}
    /\ UNCHANGED <<code, activating>>

DeactivateDomain(d) ==
    /\ d \in Present
    /\ active' = active \ ({d} \cup Below(d))
    /\ UNCHANGED <<code, activating>>

BeginActivate(u, s) ==
    /\ activating[u] = {}
    /\ s \in Present /\ DomainOf[s] \in active
    /\ activating' = [activating EXCEPT ![u] = {s}]
    /\ UNCHANGED <<code, active>>

Activate(u) ==
    /\ activating[u] # {}
    /\ active' = active \cup activating[u]
    /\ activating' = [activating EXCEPT ![u] = {}]
    /\ UNCHANGED code

DeactivateSubDomain(s) ==
    /\ s \in Present
    /\ active' = active \ {s}
    /\ UNCHANGED <<code, activating>>

Next ==
    \/ \E x \in Entries : Create(x) \/ Recode(x)
    \/ \E d \in Domains : ActivateDomain(d) \/ DeactivateDomain(d)
    \/ \E s \in SubDomains : DeactivateSubDomain(s) \/ \E u \in Curators : BeginActivate(u, s)
    \/ \E u \in Curators : Activate(u)

Spec == Init /\ [][Next]_domainVars

-----------------------------------------------------------------------------
\* "An active sub-domain under an inactive domain would be a genuinely
\* inconsistent state."  Creating one there makes it; nothing else does, until
\* requests overlap.  (setDomainActive, setSubDomainActive)
Stranded == {s \in SubDomains \cap active : DomainOf[s] \notin active}

NoneStranded == Stranded' \subseteq Stranded \/ \E s \in SubDomains : Create(s)

=============================================================================
