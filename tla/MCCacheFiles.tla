---------------------------- MODULE MCCacheFiles ----------------------------
(***************************************************************************)
(* A zone with two devices. The editor's lists: the zone as a whole, or    *)
(* one of its devices beside it.                                           *)
(***************************************************************************)
EXTENDS CacheFiles

MCLists == {<<>>, <<Entry("z", NoDevice)>>, <<Entry("z", NoDevice), Entry("z", "d1")>>,
            <<Entry("z", "d2"), Entry("z", NoDevice)>>}
=============================================================================
