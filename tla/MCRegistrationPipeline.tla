----------------------- MODULE MCRegistrationPipeline -----------------------
(* Values for model checking RegistrationPipeline: interchangeable clients. *)
EXTENDS RegistrationPipeline, TLC

Interchangeable == Permutations(Clients)
=============================================================================
