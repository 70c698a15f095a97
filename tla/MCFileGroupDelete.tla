--------------------------- MODULE MCFileGroupDelete ---------------------------
(***************************************************************************)
(* Instances of FileGroupDelete for TLC.  Rows and requests are            *)
(* interchangeable; a run with liveness properties uses no symmetry.       *)
(***************************************************************************)
EXTENDS FileGroupDelete, TLC

\* The deletion as one approval leaves it, its mail sent: the liveness run
\* starts here to afford a fault.
ApprovedInit ==
    /\ rows = [d \in Rows |-> IF d = CHOOSE e \in Rows : TRUE THEN Fresh ELSE Absent]
    /\ run = [d \in Rows |-> Idle]
    /\ state = "initial_handle_content" /\ toQueue = 0
    /\ live = Records /\ schema = FALSE /\ held = {}
    /\ versioned \in BOOLEAN /\ content = "stored" /\ notice = FALSE
    /\ events = {}
    /\ req = [r \in Requests |-> IF r = CHOOSE q \in Requests : TRUE THEN "approved" ELSE "unused"]
    /\ final = FALSE /\ torn = FALSE /\ doubled = FALSE /\ faults = 0

ApprovedSpec == ApprovedInit /\ [][Next]_vars /\ Fairness

Symmetry == Permutations(Rows) \cup Permutations(Requests)
==============================================================================
