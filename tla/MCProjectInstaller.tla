------------------------- MODULE MCProjectInstaller -------------------------
(***************************************************************************)
(* A small profile and a large one.                                        *)
(***************************************************************************)
EXTENDS ProjectInstaller, TLC

CONSTANTS solo, full, config, skill, agent

FilesOf == solo :> {skill} @@ full :> {skill, agent}
=============================================================================
