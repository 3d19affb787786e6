--------------------------- MODULE MCLivePlaylist ---------------------------
(* Two playlists in one run: three channels without sources whose numbers and *)
(* locks change, and two channels whose chains two sources join and leave.    *)
(* The constants of LivePlaylist itself only bound what the properties range  *)
(* over.                                                                      *)
EXTENDS LivePlaylist, TLC

CONSTANTS s1, s2, n1, n2
VARIABLE focus

BothNamed == s1 :> n1 @@ s2 :> n1

Numbers == INSTANCE LivePlaylist WITH Sources <- {}, Names <- {n1}, NameOf <- <<>>
ChainsOf == INSTANCE LivePlaylist WITH MaxChannels <- 2, MaxOrder <- 2,
                                       Asked <- {}, Locks <- {FALSE}

MCInit == Init /\ focus \in {"numbers", "chains"}
MCNext ==
    /\ UNCHANGED focus
    /\ \/ focus = "numbers" /\ Numbers!Next
       \/ focus = "chains" /\ ChainsOf!Next

MCSpec == MCInit /\ [][MCNext]_<<vars, focus>>
=============================================================================
