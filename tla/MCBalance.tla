----------------------------- MODULE MCBalance -----------------------------
EXTENDS Balance
Nested ==
    LET from[i \in 0 .. depth] ==
          IF i = 0 THEN <<>>
          ELSE [n \in Levels[depth + 1 - i] |->
                  IF i = 1 THEN <<disk[n].ents>>
                  ELSE <<disk[n].ents, [j \in DOMAIN disk[n].kids |-> from[i - 1][disk[n].kids[j]]]>>]
    IN  IF depth = 0 THEN <<>> ELSE from[depth][root]

View == IF pc = "idle" THEN <<Nested>> ELSE vars
=============================================================================
