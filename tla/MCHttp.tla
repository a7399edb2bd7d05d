------------------------------- MODULE MCHttp -------------------------------
(* The handlers of browsers' requests on small instances.  A behaviour is of  *)
(* one part: sign-in callbacks, POSTs of an upload link, or GETs of a         *)
(* download link; what the others keep stays as it is.                        *)
(*                                                                            *)
(* The files: a small one, two with its content, of which one is stored in a  *)
(* size out of the band, and two large ones of the same name, which take two  *)
(* ranges each.  The second POST comes with the link of the first or another. *)
EXTENDS AccountSwitch, Upload, TLC

CONSTANTS small, twin, wide, large, other, p1, p2, u1, u2

MCFile      == {small, twin, wide, large, other}
MCContentOf == [f \in MCFile |-> CASE f = large -> "b" [] f = other -> "c" [] OTHER -> "a"]
MCNameOf    == (small :> "x") @@ (twin :> "z") @@ (wide :> "x") @@ (large :> "y") @@ (other :> "y")
MCSizeOf    == [f \in MCFile |-> IF f \in {large, other} THEN 3 ELSE 1]
MCInBand    == {e \in MCFile \X MCFile : e[1] # wide /\ MCSizeOf[e[1]] = MCSizeOf[e[2]]}
MCBefore    == {{}, {twin, other}, {wide}}
MCBatches   == (p1 :> {<<large>>, <<small, small>>}) @@ (p2 :> {<<small>>})
MCLinkOf    == (p1 :> {u1}) @@ (p2 :> {u1, u2})

VARIABLE part

uploadVars == <<link, post, get, task, left, indexed, faults>>
httpVars   == <<part, switchVars, uploadVars>>

HttpInit ==
    /\ part \in {"sign-in", "posts", "gets"}
    /\ SwitchInit /\ Init
    /\ part = "sign-in" => task = {}
    /\ part = "gets" => task # {}

OnSignIn == part = "sign-in" /\ UNCHANGED <<part, uploadVars>>
OnPosts  == part = "posts" /\ UNCHANGED <<part, switchVars>>
OnGets   == part = "gets" /\ UNCHANGED <<part, switchVars>>

HttpNext ==
    \/ OnSignIn /\ SwitchNext
    \/ /\ OnPosts
       /\ \/ CreateUploadLink
          \/ \E k \in Uploads : Expire(k)
          \/ \E p \in Posts :
               \/ \E via \in LinkOf[p], files \in Batches[p], inQuery \in BOOLEAN :
                    Arrive(p, via, files, inQuery)
               \/ PostStep(p) \/ Die(p)
    \/ /\ OnGets
       /\ \/ MintDownloadLink \/ Expire(Download)
          \/ \E g \in Gets : CheckGet(g) \/ GetStep(g) \/ DieGet(g)

\* The fairness of the parts.
HttpSpec ==
    /\ HttpInit /\ [][HttpNext]_httpVars
    /\ WF_httpVars(OnSignIn /\ Heartbeat) /\ WF_httpVars(OnSignIn /\ Alarm)
    /\ WF_httpVars(OnSignIn /\ CycleDone)
    /\ \A c \in Callbacks : WF_httpVars(OnSignIn /\ Callback(c))
    /\ \A p \in Posts : WF_httpVars(OnPosts /\ PostStep(p))
    /\ \A g \in Gets : WF_httpVars(OnGets /\ GetStep(g))
=============================================================================
