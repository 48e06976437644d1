------------------------------ MODULE Reconciler ------------------------------
(***************************************************************************)
(* reconciler.py: core transactions against the records of a partner's     *)
(* statement, both sequences of [ref, amount].  An item of the report is   *)
(* its status and the places of the records it compares, 0 for none.       *)
(***************************************************************************)
EXTENDS Naturals, Sequences

Item(status, i, j) == [status |-> status, core |-> i, partner |-> j]

\* core_by_key, partner_by_key: the first record of every reference.
by_key(records) ==
    {i \in DOMAIN records : \A k \in 1..i - 1 : records[k].ref # records[i].ref}
duplicates(records) == DOMAIN records \ by_key(records)

\* The partner's record of a reference, 0 if there is none.
partner_of(partner, ref) ==
    IF \E j \in by_key(partner) : partner[j].ref = ref
    THEN CHOOSE j \in by_key(partner) : partner[j].ref = ref
    ELSE 0

compare(core, partner, i) ==
    LET j == partner_of(partner, core[i].ref)
    IN  Item(IF j = 0 THEN "MISSING_ON_PARTNER"
             ELSE IF partner[j].amount # core[i].amount THEN "AMOUNT_MISMATCH"
             ELSE "MATCHED", i, j)

only_partner(core, partner) ==
    {j \in by_key(partner) : \A i \in by_key(core) : core[i].ref # partner[j].ref}

\* Mutant: a reference the partner lists again is collapsed, not reported.
reconcile_collapses(core, partner) ==
    {Item("DUPLICATE_IN_CORE", i, 0) : i \in duplicates(core)}
    \cup {compare(core, partner, i) : i \in by_key(core)}
    \cup {Item("MISSING_IN_CORE", 0, j) : j \in only_partner(core, partner)}

reconcile(core, partner) ==
    {Item("DUPLICATE_IN_CORE", i, 0) : i \in duplicates(core)}
    \cup {Item("DUPLICATE_ON_PARTNER", 0, j) : j \in duplicates(partner)}
    \cup {compare(core, partner, i) : i \in by_key(core)}
    \cup {Item("MISSING_IN_CORE", 0, j) : j \in only_partner(core, partner)}

is_balanced(items) == \A item \in items : item.status = "MATCHED"
===============================================================================
