----------------------------- MODULE BuildPromise -----------------------------
(***************************************************************************)
(* What the super-project build promises to its users, whatever ninja, the *)
(* stamps and the commands do to keep it (module SuperBuild implements it):*)
(* a sub-project is done or not.  One that is done has a product made from *)
(* what is wanted of all it is built from, and the product stays as it is  *)
(* until a disturbance takes the sub-project, and all that use it, back.   *)
(***************************************************************************)
EXTENDS Naturals

CONSTANTS
  Proj,     (* Sub-projects.                                               *)
  Uses,     (* Uses[p]: the sub-projects p is built from, p included.      *)
  Rev       (* Revisions.                                                  *)

VARIABLES
  want,     (* want[q]: what a tree must hold of q: the one revision that  *)
            (* is wanted; Anything if the build cannot know it.            *)
  done,     (* The sub-projects that there is nothing to do for.           *)
  product,  (* product[p]: the revisions of each sub-project in it.        *)
  budget    (* Disturbances to come.                                       *)

vars == <<want, done, product, budget>>

Anything == {}
Users(q) == {p \in Proj : q \in Uses[p]}
Good(tree, p) == \A q \in Uses[p] : want[q] # Anything => tree[q] = want[q]

OnlyProduct(p) == \A x \in Proj \ {p} : product'[x] = product[x]
OnlyWant(q) == \A x \in Proj \ {q} : want'[x] = want[x]

(* p is worked on, with any outcome.                                        *)
Work(p) ==
  /\ p \in Proj \ done
  /\ OnlyProduct(p)
  /\ UNCHANGED <<want, done, budget>>

(* p is done, after everything it is built from.                            *)
Deliver(p) ==
  /\ p \in Proj \ done
  /\ Uses[p] \ {p} \subseteq done
  /\ done' = done \union {p}
  /\ OnlyProduct(p) /\ Good(product'[p], p)
  /\ UNCHANGED <<want, budget>>

(* Work on q begins, and fixes the revision that is wanted of it.           *)
Begin(q) ==
  /\ q \in Proj \ done
  /\ \E r \in Rev : want'[q] = {r}
  /\ OnlyWant(q)
  /\ UNCHANGED <<done, product, budget>>

(* Something happens to q.  Whatever uses it is no longer done, or else the *)
(* build cannot know, and then the product of q is not touched either.      *)
Disturbed(q) ==
  /\ q \in Proj
  /\ budget > 0 /\ budget' = budget - 1
  /\ \/ done' = done \ Users(q)
     \/ done' = done /\ want'[q] \in {want[q], Anything}
  /\ OnlyWant(q) /\ OnlyProduct(q)
  /\ q \in done' => product'[q] = product[q]

(* What is done is good, and so is all it is built from.                    *)
Kept == \A p \in done : Good(product[p], p) /\ Uses[p] \subseteq done

Init == done \subseteq Proj /\ budget \in Nat /\ Kept

Next == \E p \in Proj : Work(p) \/ Deliver(p) \/ Begin(p) \/ Disturbed(p)

Spec == Init /\ [][Next]_vars
=============================================================================
