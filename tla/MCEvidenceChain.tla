--------------------------- MODULE MCEvidenceChain ---------------------------
EXTENDS EvidenceChain, TLC, Naturals

CONSTANTS b1, b2, b3, b4, b5

Obs(id, field, value, run, meta) ==
    [id |-> id, field |-> field, value |-> value, run |-> run, meta |-> meta]

\* b1 has a value of one field; b2 the same observation from another run, and one that
\* disagrees; b3 keyword evidence; b4 and b5 collide with b1, in content and in metadata.
MCContents == b1 :> {Obs("o1", "price", "v1", "r1", 0), Obs("o4", "price", Absent, "r1", 0)}
           @@ b2 :> {Obs("o1", "price", "v1", "r2", 1), Obs("o2", "price", "v2", "r2", 0)}
           @@ b3 :> {Obs("o3", "rank", "v1", "r3", 0)}
           @@ b4 :> {Obs("o1", "price", "v2", "r4", 0)}
           @@ b5 :> {Obs("o1", "price", "v1", "r1", 1)}

MCSelections == {{b1}, {b3}, {b1, b2}, {b1, b2, b3}, {b1, b4}, {b1, b5}}
=============================================================================
