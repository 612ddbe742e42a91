--------------------------- MODULE SigningConsent ---------------------------
(***************************************************************************)
(* What a signing device promises, with nothing of how it is done: a       *)
(* review is put in front of the user, only the user's approval lets       *)
(* signatures of the reviewed content out, a transaction's in the order of *)
(* its inputs, and an approval that has ended does not come back.          *)
(*                                                                         *)
(* The application is shown to implement this in KaspaRefinement; the      *)
(* source it is an abstraction of is the whole of handler/, ui/ and        *)
(* crypto.c.                                                               *)
(***************************************************************************)
EXTENDS Integers

CONSTANTS
    Modulus,                \* the input index has this many values
    IsReview(_),            \* a review whose screen agrees with its content
    IsSignature(_, _, _)    \* IsSignature(r, i, s): s signs input i of the
                            \* content of the review r

VARIABLES
    pending,    \* the review the user is asked to answer
    approved,   \* the transaction review whose inputs may be signed, and the
                \* index of the next one
    output      \* the signature that was sent last

abstractVars == <<pending, approved, output>>

None    == [kind |-> "none"]
Indexes == 0 .. Modulus - 1

Init == pending = None /\ approved = None /\ output = None

\* A review comes up; what had been approved before is over.
Ask ==
    /\ pending = None
    /\ IsReview(pending')
    /\ approved' = None
    /\ output' = None

\* The user approves: the first signature leaves the device.  A message has
\* only one; a transaction stays approved.
Approve ==
    /\ pending # None
    /\ pending' = None
    /\ \E i \in Indexes :
        /\ IsSignature(pending, i, output')
        /\ approved' = IF pending.kind = "transaction"
                       THEN [kind |-> "approved", review |-> pending,
                             next |-> (i + 1) % Modulus]
                       ELSE None

\* A further signature, of the next input of what was approved.
SignNext ==
    /\ pending = None
    /\ approved # None
    /\ IsSignature(approved.review, approved.next, output')
    /\ approved' = [approved EXCEPT !.next = (@ + 1) % Modulus]
    /\ UNCHANGED pending

\* Some other command is answered.
Answer == pending = None /\ output' = None /\ UNCHANGED <<pending, approved>>

\* The user rejects, a step fails, another request begins, the device restarts.
End == pending' = None /\ approved' = None /\ output' = None

Next == Ask \/ Approve \/ SignNext \/ Answer \/ End

Spec == Init /\ [][Next]_abstractVars
=============================================================================
