----------------------------- MODULE MCItemStore -----------------------------
(* Model checking of ItemStore on small instances; see the .cfg files.      *)
EXTENDS ItemStore, TLC

CONSTANTS x, p, t, f, g, mk, m1, m2, k, ds, j1, j2, r1, r2, r3

Symmetry == Permutations(RowIds)

LengthValue == (t :> 2) @@ (f :> 1) @@ (g :> 3)
DSValue == [j \in Jobs |-> ds]

One(property, value, nulls) ==
  [priorities |-> <<[property |-> property, value |-> value]>>, nulls |-> nulls]

(* The first import prefers bigger data and what is new; the second         *)
(* overwrites some and keeps some of what there is.                         *)
PreferencesValue ==
  j1 :> [data |-> One("size", "bigger", FALSE),
         original_location |-> One("keep", "incoming", FALSE),
         metadata |-> One("keep", "incoming", FALSE)]
  @@ j2 :> [data |-> One("keep", "incoming", TRUE),
            original_location |-> One("keep", "existing", FALSE),
            timestamp |-> One("timestamp", "earlier", FALSE),
            metadata |-> One("keep", "existing", FALSE)]

Item(id, key, text, file, place, time, meta) ==
  [id |-> id, key |-> key, text |-> text, file |-> file, place |-> place,
   time |-> time, meta |-> mk :> meta]

ItemsValue ==
  {Item(x, None, None, f, p, 1, m1),     \* an item with an ID and a file
   Item(x, None, None, g, None, 2, m2),  \* the same one, later
   Item(x, None, t, None, None, 0, None),   \* its caption, as text
   Item(None, None, None, f, None, 1, None),  \* a file without an ID
   Item(x, None, None, None, None, 0, None),  \* a mere reference to x
   Item(None, k, None, g, p, 0, None)}   \* a piece with a retrieval key

ConstraintsValue == [data_source_name |-> TRUE, data |-> TRUE,
                     timestamp |-> FALSE]

=============================================================================
