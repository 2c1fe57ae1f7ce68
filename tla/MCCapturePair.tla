---------------------------- MODULE MCCapturePair ----------------------------
(***************************************************************************)
(* Small instance of CapturePair: the reports a camera may return cover a   *)
(* JPEG alone, under either suffix, with a raw file in either order, and    *)
(* one report for every reason _validate_artifacts has to refuse it.        *)
(***************************************************************************)
EXTENDS CapturePair

Good(suffix) == [suffix |-> suffix, fault |-> "none"]
Bad(suffix, fault) == [suffix |-> suffix, fault |-> fault]

ValidReports == {<<Good("jpg")>>, <<Good("dng"), Good("jpeg")>>}

RefusedReports ==
    {<<>>, <<Good("dng")>>, <<Good("jpg"), Good("jpeg")>>,
     <<Good("jpg"), Good("txt")>>, <<Bad("jpg", "empty")>>,
     <<Good("jpg"), Bad("dng", "symlink")>>, <<Bad("jpeg", "stray")>>}

AnyReports == ValidReports \cup RefusedReports
=============================================================================
