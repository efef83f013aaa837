--------------------------- MODULE MCAdapterRecords ---------------------------
EXTENDS AdapterRecords, TLC

Symmetry   == Permutations(Writers)
MCPayloads == {[name |-> 2], [tags |-> {"t2"}], [name |-> 1, owner |-> 2, tags |-> {}]}
MCQueries  ==
  { [state |-> "active",  tags |-> {"t1", "t2"}, search |-> TRUE,  page |-> 2],
    [state |-> "deleted", tags |-> {},           search |-> FALSE, page |-> 1] }
MCFirst    == << [id |-> 1, name |-> 1, owner |-> 1, tags |-> {"t1"}, deleted |-> FALSE] >>
=============================================================================
