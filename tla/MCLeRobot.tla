----------------------------- MODULE MCLeRobot -----------------------------
(* Bags of two uuids.  One has two segments that overlap and a row without
   an image; one has a segment between two rows and one whose end is rounded
   up to the first row; one names a label that it does not have.            *)
EXTENDS LeRobotTransform

Segment(start, end, label_idx) == [start |-> start, end |-> end, label_idx |-> label_idx]

Rows(images) == [i \in DOMAIN images |-> [ts |-> i + 1, image |-> images[i]]]

Overlapping ==
  [uuid |-> "a", labels |-> <<"pick", "place">>, label |-> "tidy",
   segments |-> <<Segment(4, 7, 1), Segment(6, 8, 2)>>, rows |-> Rows(<<None, 0, 1>>)]

Shorter ==
  [uuid |-> "a", labels |-> <<"place">>, label |-> "",
   segments |-> <<Segment(0, 5, 1)>>, rows |-> Rows(<<0, 0>>)]

Narrow ==
  [uuid |-> "b", labels |-> <<"place", "pick">>, label |-> "pick",
   segments |-> <<Segment(3, 3, 1), Segment(5, 5, 2), Segment(0, 2, 2)>>, rows |-> Rows(<<0, 1>>)]

Mislabelled ==
  [uuid |-> "b", labels |-> <<"wipe">>, label |-> "",
   segments |-> <<Segment(4, 6, 1), Segment(4, 6, 2)>>, rows |-> Rows(<<0, 1>>)]

MCBag == {Overlapping, Shorter, Narrow, Mislabelled}
=============================================================================
