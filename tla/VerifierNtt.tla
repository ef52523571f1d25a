------------------------------ MODULE VerifierNtt ------------------------------
(***************************************************************************)
(* The verifier's cache of exact NTT prefixes (akita-types/src/ntt_cache.rs) *)
(* with the prepared artifacts that are installed into it                  *)
(* (prepared_artifact.rs) and its user, the terminal check of the verifier *)
(* (terminal_ntt.rs).                                                      *)
(*                                                                         *)
(* A cached prefix is exact for its row width if the product of its CRT    *)
(* primes is large enough, if need be with one more prime: the tail.  The  *)
(* primes of the scalar and of the IFMA52 backend differ, and so do the    *)
(* widths from which a tail is needed.  Artifacts are always scalar, the   *)
(* verifier may run on either backend.                                     *)
(*                                                                         *)
(* One ring dimension and one bound of the right-hand side are modelled,   *)
(* so a key is its width; lengths count ring elements.  The map is locked  *)
(* for a whole prepare, the build included.                                *)
(***************************************************************************)
EXTENDS Naturals

CONSTANTS
  Calls,        \* verifications
  Widths,       \* row widths of terminal matrices
  Heights,      \* their numbers of rows
  Capacity,     \* ring elements of the verifier's setup matrix
  Foreign,      \* identities an artifact may be bound to besides the right one
  BaseWidth,    \* backend -> largest width that is exact without a tail
  TailWidth,    \* backend -> largest width that is exact with a tail
  None,
  MaxInstalls   \* bound on installations

Backends == {"scalar", "ifma52"}

\* The six scalar primes have more bits together than the three of IFMA52.
ASSUME NttAssumption ==
  /\ Widths \subseteq Nat \ {0} /\ Heights \subseteq Nat \ {0} /\ Capacity \in Nat
  /\ BaseWidth \in [Backends -> Nat] /\ TailWidth \in [Backends -> Nat]
  /\ \A b \in Backends : BaseWidth[b] <= TailWidth[b]
  /\ BaseWidth["ifma52"] <= BaseWidth["scalar"]
  /\ TailWidth["ifma52"] <= TailWidth["scalar"]
  /\ None \notin Foreign /\ "own" \notin Foreign /\ MaxInstalls \in Nat

VARIABLES
  host,      \* backend of this machine
  row,       \* schedule row of every call: width and height of its terminal matrix
  slots,     \* the map: width -> prepared prefix
  pc,
  held,      \* the prefix a call works with
  missed,    \* calls that had to build although they had warmed the cache
  installs

vars == <<host, row, slots, pc, held, missed, installs>>

Rows == [width : Widths, height : Heights]
Length(r) == r.width * r.height

\* A prefix of the setup matrix, with a tail over a prefix of it.
Prefixes ==
  {p \in [base : 1 .. Capacity, tail : 0 .. Capacity, backend : Backends,
          from : Foreign \cup {"own"}] : p.tail <= p.base}

TypeOK ==
  /\ host \in Backends
  /\ row \in [Calls -> Rows]
  /\ slots \in [Widths -> Prefixes \cup {None}]
  /\ pc \in [Calls -> {"new", "warm", "multiply", "done", "failed"}]
  /\ held \in [Calls -> Prefixes \cup {None}]
  /\ missed \subseteq Calls
  /\ installs \in 0 .. MaxInstalls

Init ==
  /\ host \in Backends
  /\ row \in [Calls -> Rows]
  /\ slots = [w \in Widths |-> None]
  /\ pc = [c \in Calls |-> "new"]
  /\ held = [c \in Calls |-> None]
  /\ missed = {}
  /\ installs = 0
-----------------------------------------------------------------------------
(* Which primes, and whether a tail.                                       *)

\* required_profile_for_params: no tail, a tail, or out of reach.
Supported(b, w) == w <= TailWidth[b]
NeedsTail(b, w) == w > BaseWidth[b]

\* exact_cache_plan: IFMA52 if the machine has it and it reaches the width.
Plan(w) == IF host = "ifma52" /\ Supported("ifma52", w) THEN "ifma52" ELSE "scalar"

\* The tail a verification asks for: all of its prefix or nothing.
WantedTail(r) == IF NeedsTail(Plan(r.width), r.width) THEN Length(r) ELSE 0

\* The row can be served at all: ring_view takes it from the setup matrix.
Valid(r) == Supported(Plan(r.width), r.width) /\ Length(r) <= Capacity
-----------------------------------------------------------------------------
(* prepare.                                                                *)

\* The slot is long enough, in its base and in its tail.
Covers(slot, r) == slot # None /\ slot.base >= Length(r) /\ slot.tail >= WantedTail(r)

Larger(m, n) == IF m >= n THEN m ELSE n

\* A faulty variant: the tail does not grow with the base.
RebuiltOldTail(slot, r) ==
  [base    |-> IF slot = None THEN Length(r) ELSE Larger(slot.base, Length(r)),
   tail    |-> IF slot = None THEN WantedTail(r) ELSE slot.tail,
   backend |-> Plan(r.width),
   from    |-> "own"]

\* What replaces a slot that does not cover the request: as long as both.  A
\* tail that the slot had is kept, whether this backend needs it or not.
Rebuilt(slot, r) ==
  [base    |-> IF slot = None THEN Length(r) ELSE Larger(slot.base, Length(r)),
   tail    |-> IF slot = None THEN WantedTail(r) ELSE Larger(slot.tail, WantedTail(r)),
   backend |-> Plan(r.width),
   from    |-> "own"]

Served(r) == IF Covers(slots[r.width], r) THEN slots[r.width] ELSE Rebuilt(slots[r.width], r)

\* warm_for_schedule, at the start of a verification.
Warm(c) ==
  /\ pc[c] = "new" /\ Valid(row[c])
  /\ slots' = [slots EXCEPT ![row[c].width] = Served(row[c])]
  /\ pc' = [pc EXCEPT ![c] = "warm"]
  /\ UNCHANGED <<host, row, held, missed, installs>>

\* The look-up of centered_rows, at its end.
LookUp(c) ==
  /\ pc[c] = "warm"
  /\ held' = [held EXCEPT ![c] = Served(row[c])]
  /\ slots' = [slots EXCEPT ![row[c].width] = Served(row[c])]
  /\ missed' = IF Covers(slots[row[c].width], row[c]) THEN missed ELSE missed \cup {c}
  /\ pc' = [pc EXCEPT ![c] = "multiply"]
  /\ UNCHANGED <<host, row, installs>>

\* mat_vec_i16: the IFMA52 product uses a tail whenever there is one, the
\* scalar one when its width needs it; either must reach over all rows.
UsesTail(p, w) == IF p.backend = "ifma52" THEN p.tail > 0 ELSE NeedsTail("scalar", w)
Multiplies(p, r) ==
  /\ p.base >= Length(r)
  /\ p.backend = "ifma52" => ~NeedsTail("ifma52", r.width) \/ p.tail > 0
  /\ UsesTail(p, r.width) => p.tail >= Length(r)

Multiply(c) ==
  /\ pc[c] = "multiply"
  /\ pc' = [pc EXCEPT ![c] = IF Multiplies(held[c], row[c]) THEN "done" ELSE "failed"]
  /\ UNCHANGED <<host, row, slots, held, missed, installs>>
-----------------------------------------------------------------------------
(* Artifacts.                                                              *)

\* What prepared_verifier_ntt_cache_metadata lets through: a header whose
\* lengths fit together, the payload and the setup it names.
Headers(w) ==
  {a \in [base : 1 .. Capacity, tail : 0 .. Capacity, from : Foreign \cup {"own"},
          schedule : Rows] : w <= a.base /\ a.tail <= a.base}

\* A faulty variant: the identity of the setup is not compared.
BoundToSchedule(a, r) == a.schedule = r

\* The artifact is bound to this setup and to the caller's schedule row.
BoundTo(a, r) == a.from = "own" /\ a.schedule = r

\* decode_riscv64_scalar_q128_cache: the tail is what the scalar primes call for.
Decodes(a, w, r) ==
  /\ BoundTo(a, r)
  /\ Supported("scalar", w)
  /\ a.tail = IF NeedsTail("scalar", w) THEN a.base ELSE 0

\* install_trusted_prepared_verifier_ntt_cache: whatever the slot held goes.
Install(w, r, a) ==
  /\ installs < MaxInstalls
  /\ Decodes(a, w, r)
  /\ slots' = [slots EXCEPT ![w] = [base |-> a.base, tail |-> a.tail,
                                     backend |-> "scalar", from |-> a.from]]
  /\ installs' = installs + 1
  /\ UNCHANGED <<host, row, pc, held, missed>>

Next ==
  \/ \E c \in Calls : Warm(c) \/ LookUp(c) \/ Multiply(c)
  \/ \E w \in Widths, r \in Rows : \E a \in Headers(w) : Install(w, r, a)

Spec == Init /\ [][Next]_vars
-----------------------------------------------------------------------------
(* Properties.                                                             *)

\* No verification fails for its cache: whatever was installed, by whomever,
\* between any of its steps, and on either backend, the product it computes
\* finds a base and, where one is used, a tail over all of its rows.
NoCallFails == \A c \in Calls : pc[c] # "failed"

\* Exactness: a finished product was computed with enough primes for its
\* width, from the verifier's own setup.
Exact(p, r) ==
  /\ Supported(p.backend, r.width)
  /\ NeedsTail(p.backend, r.width) => p.tail >= Length(r)
ProductsExact ==
  \A c \in Calls : pc[c] = "done" => Exact(held[c], row[c]) /\ held[c].from = "own"
-----------------------------------------------------------------------------
(* The inductive invariant.                                                *)

\* A prefix that may be in the slot of a width: exact primes of the own setup,
\* of the planned backend or of an artifact, and no tail where the plan of this
\* machine has no use for one.
Sound(p, w) ==
  /\ p.from = "own"
  /\ Supported(p.backend, w)
  /\ p.backend = "ifma52" => Plan(w) = "ifma52"
  /\ ~NeedsTail(Plan(w), w) => p.tail = 0

\* It is also long enough for a row.
Fits(p, r) == Sound(p, r.width) /\ p.base >= Length(r) /\ p.tail >= WantedTail(r)

SlotsSound == \A w \in Widths : slots[w] # None => Sound(slots[w], w)

CallsFit ==
  \A c \in Calls : /\ pc[c] = "warm" => Valid(row[c])
                   /\ pc[c] \in {"multiply", "done"} => held[c] \in Prefixes /\ Fits(held[c], row[c])
                   /\ pc[c] # "failed"

IInv == TypeOK /\ SlotsSound /\ CallsFit
=============================================================================
