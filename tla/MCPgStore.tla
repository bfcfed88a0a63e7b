----------------------------- MODULE MCPgStore -----------------------------
(* Model values for PgStore: two spellings of every column name, the       *)
(* operator's configuration in lower case or in upper case.                *)
EXTENDS PgStore, TLC

CONSTANTS e1, e2, h1, h2, w1, w2,
          id, ID, addr, ADDR, port, PORT, seed, SEED, leech, LEECH

MCNames == {id, ID, addr, ADDR, port, PORT, seed, SEED, leech, LEECH}

\* strings.ToUpper on the column names
MCUpper == [n \in MCNames |->
              CASE n \in {id, ID} -> ID
                [] n \in {addr, ADDR} -> ADDR
                [] n \in {port, PORT} -> PORT
                [] n \in {seed, SEED} -> SEED
                [] n \in {leech, LEECH} -> LEECH]

LowerConfig == [peerID |-> id, address |-> addr, port |-> port,
                countSeeders |-> seed, countLeechers |-> leech]
UpperConfig == [peerID |-> ID, address |-> ADDR, port |-> PORT,
                countSeeders |-> SEED, countLeechers |-> LEECH]

MCRawConfigs == {LowerConfig, UpperConfig}
MCLowerOnly == {LowerConfig}

MCSymmetry == Permutations({e1, e2}) \cup Permutations({w1, w2})
====
