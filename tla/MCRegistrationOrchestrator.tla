--------------------- MODULE MCRegistrationOrchestrator ---------------------
(***************************************************************************)
(* Values for model checking RegistrationOrchestrator.  The process finds *)
(* a base directory in which manifest m1 holds app, m2 rival or odd, both  *)
(* initialized, submitted and approved; and it may have registered m1.     *)
(***************************************************************************)
EXTENDS RegistrationOrchestrator, TLC

CONSTANTS app, rival, odd, uApp, uLib, uOdd, m1, m2, r1

(* rival claims app's urn; both depend on uLib, which no manifest has.     *)
(* odd has a urn that the graph does not accept and nothing else refuses.  *)
Urn == (app :> uApp) @@ (rival :> uApp) @@ (odd :> uOdd)
Deps == (app :> {uLib, uOdd}) @@ (rival :> {uLib}) @@ (odd :> {uLib})

Approved(f) ==
  [ version |-> 3,
    state |-> [ cur |-> "APPROVED", manifest |-> f, reviewer |-> r1,
                notes |-> TRUE, reason |-> FALSE,
                last |-> <<"REVIEWED", "approve", "APPROVED">> ] ]

ApprovedLog == [ events |-> 3, cur |-> "APPROVED", reviewer |-> r1,
                 notes |-> TRUE, reason |-> FALSE, torn |-> FALSE ]

Idle ==
  /\ client = [c \in Clients |-> Pipeline!NoCall]
  /\ job = [c \in Clients |-> NoJob]
  /\ ops = 0 /\ faults = 0

OnDisk(f) ==
  /\ snap = (m1 :> Pipeline!Saved(Approved(app))) @@ (m2 :> Pipeline!Saved(Approved(f)))
  /\ log = [m \in Ids |-> ApprovedLog]
  /\ catalog = [u \in Urns |-> None]
  /\ node = [u \in Urns |-> "none"]
  /\ edges = {} /\ severed = {}

(* The state a register call on m1 leaves OnDisk(f) in, once it returned.  *)
Registered1(f) ==
  /\ snap = (m2 :> Pipeline!Saved(Approved(f))) @@
            (m1 :> Pipeline!Saved([ version |-> 4,
                      state |-> [ Approved(app).state EXCEPT
                                    !.cur = "REGISTERED",
                                    !.last = <<"APPROVED", "register", "REGISTERED">> ] ]))
  /\ log = [m \in Ids |-> IF m = m1 THEN [ApprovedLog EXCEPT !.events = 4, !.cur = "REGISTERED"]
                                     ELSE ApprovedLog]
  /\ catalog = [u \in Urns |-> IF u = uApp THEN app ELSE None]
  /\ node = (uApp :> "full") @@ (uLib :> "placeholder") @@ (uOdd :> "none")
  /\ edges = {<<uApp, uLib>>} /\ severed = {}

InitOnDisk == Idle /\ \E f \in WithUrn \ {app} : OnDisk(f) \/ Registered1(f)

SpecOnDisk == InitOnDisk /\ [][Next]_vars
FairSpecOnDisk == SpecOnDisk /\ \A c \in Clients : WF_vars(Continue(c))
=============================================================================
