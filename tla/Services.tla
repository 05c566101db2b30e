------------------------------ MODULE Services ------------------------------
(***************************************************************************)
(* The services beside the emergency dispatch, over the handles they share *)
(* (Handles).  They meet nowhere else: no service reads what another one   *)
(* stores while it runs, except the crowd figures, which take a reading as *)
(* it is.  What the others can do to a service is therefore what they do   *)
(* to the handles, above all a crowd look-up that gives up on Redis for    *)
(* its whole process, and each behaviour here is that of one service, on   *)
(* some processes, under those changes.                                    *)
(***************************************************************************)
EXTENDS CrowdReadings, TempleCard, OtpSignIn, CrowdFigures, CommunityListings, LostFound,
        ChatLimit, NearbyFacilities, RouteGuidance, SpeechClips, PhoneCall, AssistantTurn

CONSTANT Studied        \* the services of this instance

VARIABLE service

(* The processes whose handle matters to a service here.                   *)
Uses ==
    [readings |-> Workers, temple |-> Visitors \cup {CHOOSE w \in Operators : TRUE}, otp |-> {},
     figures |-> {}, listings |-> Hosts, lost |-> Desks, chat |-> Chats, help |-> {Asker},
     routes |-> {}, clips |-> {}, call |-> {CHOOSE w \in Lines : TRUE}, assistant |-> {}]

ASSUME StudiedAssumption == Studied \subseteq DOMAIN Uses

vars == <<service, handleVars, crowdVars, templeVars, otpVars, figureVars, listingVars, lostVars,
          chatVars, helpVars, routeVars, clipVars, phoneVars, turnVars>>

(* A service that is not the one running has nothing to choose; nor is     *)
(* there a choice of the handles where an outage at once does the same.    *)
Off(s, settled) == service = s \/ settled

Init ==
    /\ service \in Studied
    /\ HandlesInit       /\ (service \notin {"otp", "clips"} => redisUp)
    /\ CrowdInit /\ ListingsInit /\ LostInit /\ ChatInit /\ ClipsInit /\ PhoneInit
    /\ TempleInit        /\ Off("temple", row = Bundled)
    /\ OtpInit           /\ Off("otp", account)
    /\ FacilitiesInit    /\ Off("help", operational = {})
    /\ TurnInit          /\ Off("assistant", channel = "app" /\ located)
    /\ FiguresInit       /\ Off("figures", <<zone, hour, minute, current>> =
                              <<CHOOSE z \in Zones : TRUE, 0, CHOOSE m \in Minutes : TRUE,
                                CHOOSE d \in Currents : TRUE>>)
    /\ RouteInit         /\ Off("routes", /\ \A z \in RouteZones : status[z] = 0
                                          /\ \A a \in Approaches :
                                               lengths[a] = CHOOSE l \in Lengths : TRUE)

Runs(s, Acts, own) == \/ service = s /\ Acts
                      \/ service # s /\ UNCHANGED own

ServiceStep ==
    /\ Runs("readings", CrowdNext, crowdVars)
    /\ Runs("temple", TempleNext, templeVars)
    /\ Runs("figures", FiguresNext /\ UNCHANGED handleVars, figureVars)
    /\ Runs("listings", ListingsNext, listingVars)
    /\ Runs("lost", LostNext, lostVars)
    /\ Runs("chat", ChatNext, chatVars)
    /\ Runs("help", FacilitiesNext, helpVars)
    /\ Runs("routes", RouteNext /\ UNCHANGED handleVars, routeVars)
    /\ Runs("clips", ClipsNext, clipVars)
    /\ Runs("call", PhoneNext, phoneVars)
    /\ Runs("assistant", TurnNext, turnVars)
    /\ UNCHANGED service
    /\ Runs("otp", OtpNext, otpVars)

HandleStep ==
    /\ \/ service \notin {"figures", "routes", "assistant"} /\ RedisNext(Uses[service])
       \/ service \notin {"figures", "routes", "chat", "clips"} /\ DatabaseNext
    /\ UNCHANGED <<service, crowdVars, templeVars, otpVars, figureVars, listingVars, lostVars,
                   chatVars, helpVars, routeVars, clipVars, phoneVars, turnVars>>

Next == ServiceStep \/ HandleStep

Spec == Init /\ [][Next]_vars

(* Type invariant: of the service that runs, for the others stand still.   *)
ServicesType ==
    /\ HandlesType
    /\ service = "readings" => CrowdType
    /\ service = "temple" => TempleType
    /\ service = "otp" => OtpType
    /\ service = "listings" => ListingsType
    /\ service = "lost" => LostType
    /\ service = "chat" => ChatType
    /\ service = "help" => FacilitiesType
    /\ service = "routes" => RouteType
    /\ service = "clips" => ClipsType
    /\ service = "call" => PhoneType
    /\ service = "assistant" => TurnType
=============================================================================
