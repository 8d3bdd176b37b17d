-------------------------------- MODULE Angles --------------------------------
(***************************************************************************)
(* Moving a rotational joint by whole revolutions: the two normalizeAngle  *)
(* functions of trac_ik_lib/src/trac_ik.cpp.  rev is the number of ticks   *)
(* in a revolution.  fmod is only ever applied to a positive difference,   *)
(* where it is the remainder %.                                            *)
(***************************************************************************)
EXTENDS Integers

\* Faults: a value is reflected at the end it passed, comes back a revolution
\* short of it, or by one revolution however far it was.
NormalizeReflected(val, min, max, rev) ==
  LET low == IF val > max THEN max - ((val - max) % rev) ELSE val
  IN  IF low < min THEN min + ((min - low) % rev) ELSE low
NormalizeShort(val, min, max, rev) ==
  LET low == IF val > max THEN max + ((val - max) % rev) ELSE val
  IN  IF low < min THEN min - ((min - low) % rev) ELSE low
NormalizeOnce(val, min, max, rev) ==
  LET low == IF val > max THEN val - rev ELSE val
  IN  IF low < min THEN low + rev ELSE low

\* A value past an end comes back to within a revolution of that end.  The
\* second test sees what the first one left.
NormalizeAngle(val, min, max, rev) ==
  LET low == IF val > max THEN max + ((val - max) % rev) - rev ELSE val
  IN  IF low < min THEN min - ((min - low) % rev) + rev ELSE low

\* The same about a target: half a revolution to either side of it.
NormalizeNear(val, target, rev) ==
  NormalizeAngle(val, target - rev \div 2, target + rev \div 2, rev)

\* What the solver does to each joint it may turn by a revolution: first near
\* the target, then, unless the joint is continuous, into its limits.
NormalizeInto(val, target, min, max, rev) ==
  NormalizeAngle(NormalizeNear(val, target, rev), min, max, rev)

=============================================================================
