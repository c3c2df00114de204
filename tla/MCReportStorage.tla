--------------------------- MODULE MCReportStorage ----------------------------
(* Instances of ReportStorage for TLC. *)
EXTENDS ReportStorage, TLC

\* Every upload is of one type and size, so any may be the copy of another.
OneKind == [a \in Assets |-> "IMAGE"]
Sizes == [a \in Assets |-> 1]
CountLimit == [kind \in {"IMAGE"} |-> 1]
CountLimitTwo == [kind \in {"IMAGE"} |-> 2]

\* Requests are alike, and so are reports and assets.
Symmetry == Permutations(Calls) \cup Permutations(Reports) \cup Permutations(Assets)

=============================================================================
