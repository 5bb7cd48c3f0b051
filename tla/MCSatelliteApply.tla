-------------------------- MODULE MCSatelliteApply --------------------------
(***************************************************************************)
(* Small instances of SatelliteApply: an item for every way of applying    *)
(* one, an entity whose capabilities change and one that goes, and a       *)
(* second snapshot that has lost the dock and won a group and a profile.   *)
(***************************************************************************)
EXTENDS SatelliteApply, TLC

CONSTANTS s1, s2, image, dock, scene, group, page, lamp, fan, on, dim

MCKind == (image :> "resource") @@ (dock :> "dock") @@ (scene :> "activity") @@ (group :> "group") @@ (page :> "profile")
MCCarries == (s1 :> {image, dock, scene}) @@ (s2 :> {image, scene, group, page})
MCCaps == (s1 :> ((lamp :> on) @@ (fan :> on))) @@ (s2 :> ((lamp :> dim) @@ (fan :> None)))

Limit(pushes, faults, crashes, purges, users) ==
    [push |-> pushes, fault |-> faults, crash |-> crashes, purge |-> purges, user |-> users]
MCLimits == {Limit(3, 1, 0, 0, 0), Limit(2, 1, 1, 0, 0), Limit(2, 1, 0, 1, 0), Limit(3, 0, 0, 1, 1)}
=============================================================================
