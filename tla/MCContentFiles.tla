--------------------------- MODULE MCContentFiles ---------------------------
(* Values of the constants of ContentFiles for its runs. *)
EXTENDS ContentFiles, TLC

Order == [textures |-> 0, capes |-> 10, models |-> 20]

\* Owners and images are small numbers; strings sort by directory first.
MCUrlRank == [u \in [dir : DOMAIN Order, owner : Owners, image : Images] |->
                Order[u.dir] + 3 * u.owner + u.image]

RequestSymmetry == Permutations(Requests)

\* The state after each user put image 1 as the skin and image 2 as the cape
\* through the protocol: the requests start with two textures to replace.
InitTextured ==
  /\ rows = {} /\ active = {} /\ nextId = [k \in ContentKinds |-> 1]
  /\ texture = [o \in Owners |-> [t \in TextureKinds |->
                  [dir |-> "textures", owner |-> o, image |-> IF t = "skin" THEN 1 ELSE 2]]]
  /\ files = {texture[o][t] : o \in Owners, t \in TextureKinds}
  /\ Lock!Init
  /\ pc = [p \in Requests |-> "idle"]
  /\ req = [p \in Requests |-> Blank]

FairSpecTextured ==
  InitTextured /\ [][Next]_vars /\ \A p \in Requests : WF_vars(Step(p))
=============================================================================
