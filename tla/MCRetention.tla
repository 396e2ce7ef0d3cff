---------------------------- MODULE MCRetention ----------------------------
(***************************************************************************)
(* Model checking of Retention: three uploads into one directory that      *)
(* holds one backup of each key and a file or directory without a          *)
(* timestamp.                                                              *)
(***************************************************************************)
EXTENDS Retention

CONSTANTS u1, u2, u3

ThreeUploads == {u1, u2, u3}

\* path.Clean maps both spellings of the first key to one name.
AllUrls == {"db/a", "db/b", "db//a"}
CleanUrl == ("db/a" :> "a") @@ ("db/b" :> "b") @@ ("db//a" :> "a")

\* The spellings the uploads use.
AllOfOneKey == [u \in ThreeUploads |-> "db/a"]
OfTwoKeys == (u1 :> "db/a") @@ (u2 :> "db/b") @@ (u3 :> "db/a")
SpeltTwice == (u1 :> "db/a") @@ (u2 :> "db//a") @@ (u3 :> "db/a")

Limits(count, age) == [k \in AllUrls |-> [maxCount |-> count, maxAge |-> age]]

CaseOf(urls, limits, keys, same) ==
  [urlOf |-> urls, policy |-> limits, sameSecond |-> same,
   old |-> [ts : {1}, key : keys], others |-> [ts : {NoTime}, key : {"a"}]]

OneKeyByCount == CaseOf(AllOfOneKey, Limits(1, 0), {"a"}, FALSE)
OneKeyByTwo == CaseOf(AllOfOneKey, Limits(2, 0), {"a"}, FALSE)
SpeltTwiceByCount == CaseOf(SpeltTwice, Limits(1, 0), {"a"}, FALSE)
TwoKeysByCount == CaseOf(OfTwoKeys, Limits(1, 0), {"a", "b"}, TRUE)
TwoKeysByAge == CaseOf(OfTwoKeys, Limits(0, 1), {"a", "b"}, TRUE)

SafetyCases == {OneKeyByCount, OneKeyByTwo, SpeltTwiceByCount, TwoKeysByAge}
ContendedCases == {TwoKeysByCount}
=============================================================================
