-------------------------- MODULE MCConfiguration --------------------------
(* The instance of Configuration for TLC. *)
EXTENDS Configuration, TLC

Nothing == [env |-> NoLayer, dotenv |-> NoLayer]

SomeEnvironments ==
    {Nothing,
     [Nothing EXCEPT !.env = "api_key" :> EnvKey],
     [Nothing EXCEPT !.dotenv = "api_key" :> EnvKey],
     [Nothing EXCEPT !.env = "server_url" :> "u"],
     [Nothing EXCEPT !.env = "server_url" :> None],
     [env |-> "mode" :> "thin", dotenv |-> "workspace" :> "w1"]}

NoFiles == [f \in Files |-> None]

\* None; the legacy file; a leaked key; a section that is not valid; a removed mode.
SomeFiles ==
    {NoFiles,
     [NoFiles EXCEPT !["json"] = [workspace |-> "w1", mode |-> "full", api_key |-> "typed"]],
     [NoFiles EXCEPT !["yaml"] = [api_key |-> EnvKey, auto |-> "bad"]],
     [NoFiles EXCEPT !["home"] = [server_url |-> "u", mode |-> "web"],
                     !["yaml"] = [workspace |-> "w2"]]}
=============================================================================
