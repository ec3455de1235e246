------------------------------- MODULE Routes -------------------------------
(***************************************************************************)
(* How a request finds its handler: the routes that the controllers        *)
(* declare, in the order in which ControllerFactory registers them, the    *)
(* middlewares in front of each handler (AuthMiddlewareFactory and its     *)
(* variants, ReqValidationMiddlewareFactory), and the decorators that turn *)
(* a handler's result into a response (controllerUtils).                   *)
(*                                                                         *)
(* A path is the sequence of its segments; a segment that starts with a    *)
(* colon is a parameter.  Of a query string and a body the model keeps     *)
(* whether they are empty, and whether their contents are what the codec   *)
(* of the route wants.  One request is followed at a time.                 *)
(***************************************************************************)
EXTENDS Naturals, Sequences, SequencesExt

VARIABLES
    stage,       \* "received", "guards", "handler" or "answered"
    incoming,    \* what the client sent
    route,       \* the index of the route that was dispatched to, or 0
    at,          \* the next of its guards
    token,       \* req.token: whose it is, or "none"
    asked,       \* the method id that the authorization service was last asked about, or <<>>
    found,       \* what came of the handler: a model, nothing, or the exception it threw
    status       \* of the answer

routeVars == <<stage, incoming, route, at, token, asked, found, status>>

(***************************************************************************)
(* The guards.  Ask is AuthMiddlewareFactory.create with the access        *)
(* control parameters and where their values come from; Check is           *)
(* ReqValidationMiddlewareFactory.create with the path parameters and the  *)
(* sections that the codec requires and allows.                            *)
(***************************************************************************)
Ask(params) == [kind |-> "ask", params |-> params, method |-> "", nested |-> {}]

AskFor(param, source) == Ask({<<param, source>>})

Token == Ask({})

AskAs(method) == [Token EXCEPT !.method = method]

Other(kind) == [kind |-> kind]         \* PuckAuthMiddleware, and the ones of Twilio and Stripe

AnyOf(first, second) == [kind |-> "any", first |-> first, second |-> second]       \* authUnion

\* Authorization that the handler asks for itself, once it has read what the request is about.
AskInside(param) == [kind |-> "inside", param |-> param]

TokenUnlessInvited == [kind |-> "unless"]

Check(params, required, optional) ==
    [kind |-> "check", params |-> params, required |-> required, allowed |-> required \cup optional]

DeviceAuthWithParents == Ask({<<"location_id", ":id">>, <<"device_id", "query">>, <<"icd_id", ":id">>})

\* It takes body.location.id apart before the body is validated.
DeviceAuthWithLocation == [AskFor("location_id", "body") EXCEPT !.nested = {"body"}]

LocationAuthWithParents == Ask({<<"location_id", ":id">>, <<"location_id", ":locationId">>})

WaterAuthWithParents == Ask({<<"location_id", "query">>, <<"device_id", "query">>, <<"user_id", "query">>})

GrafanaAuth == AskAs("ALL/api/v2/water/grafana/*")

FloDetectAuth == Ask({<<"device_id", "query">>, <<"location_id", "query">>})

AlertAuth ==
    Ask({<<p, "query">> : p \in {"user_id", "account_id", "group_id", "icd_id", "location_id"}})

(***************************************************************************)
(* The routes: verb, path, handler, guards, what the handler reads of the  *)
(* request, and its decorators, the outermost first.  (submitEventFeed-    *)
(* backV2 writes the 202 of asyncMethod itself.)                           *)
(***************************************************************************)
Route(verb, path, handler, guards, reads, decorators) ==
    [verb |-> verb, path |-> path, handler |-> handler, guards |-> guards, reads |-> reads,
     decorators |-> decorators]

PingRoutes ==
    << Route("get", <<"ping">>, "ping", <<>>, {}, <<>>) >>

InviteRoutes ==
    << Route("post", <<"accounts", "invite">>, "inviteUserToAccount",
         <<AskFor("account_id", "body"), Check({}, {"body"}, {})>>, {"body"}, <<>>),
       Route("post", <<"accounts", "invite", "revoke">>, "revokeInvitation",
         <<AskFor("account_id", "body"), Check({}, {"body"}, {})>>, {"body"}, <<>>),
       Route("post", <<"accounts", "invite", "resend">>, "resendInvitation",
         <<AskFor("account_id", "body"), Check({}, {}, {"body"})>>, {"body"}, <<>>),
       Route("post", <<"accounts", "invite", "accept">>, "acceptInvite", <<Check({}, {"body"}, {})>>, {"body"}, <<>>),
       Route("get", <<"accounts", "invite", "token">>, "getInviteToken",
         <<TokenUnlessInvited, Check({}, {"query"}, {})>>, {"query"}, <<>>) >>

AccountRoutes ==
    << Route("post", <<"accounts", "invite", "pending">>, "getAllPending",
         <<Token, Check({}, {}, {"body"})>>, {"body"}, <<>>),
       Route("post", <<"accounts", "merge">>, "mergeAccounts", <<Token, Check({}, {"body"}, {})>>, {"body"}, <<>>),
       Route("get", <<"accounts", ":id">>, "getAccount",
         <<AskFor("account_id", ":id"), Check({":id"}, {}, {"query"})>>, {":id", "query"}, <<"withResponseType">>),
       Route("post", <<"accounts", ":id">>, "updateAccount",
         <<AskFor("account_id", ":id"), Check({":id"}, {}, {"body"})>>, {":id", "body"}, <<"withResponseType">>),
       Route("delete", <<"accounts", ":id">>, "removeAccount",
         <<AskFor("account_id", ":id"), Check({":id"}, {}, {})>>, {":id"}, <<>>),
       Route("post", <<"accounts", ":id", "user-roles", ":userId">>, "updateAccountUserRole",
         <<AskFor("account_id", ":id"), Check({":id", ":userId"}, {"body"}, {})>>, {":id", ":userId", "body"}, <<"deleteMethod">>) >>

DeviceLookupRoutes ==
    << Route("get", <<"devices">>, "getDeviceByMacAdress",
         <<Check({}, {"query"}, {}), DeviceAuthWithParents>>, {"query"}, <<"withResponseType">>),
       Route("get", <<"devices", "me">>, "getOwnDevice",
         <<Other("puck"), Check({":id"}, {}, {"query"})>>, {"query", "token"}, <<"withResponseType">>),
       Route("post", <<"devices", "lte">>, "createLte",
         <<Token, Check({}, {"body"}, {})>>, {"body"}, <<"createMethod">>),
       Route("post", <<"devices", "lte", "credentials">>, "retrieveSsidCredentials",
         <<Token, Check({}, {"body"}, {})>>, {"body"}, <<>>),
       Route("post", <<"devices", "lte", "qr-code">>, "retrieveQrCode",
         <<Token, Check({}, {"body"}, {})>>, {"body"}, <<>>),
       Route("post", <<"devices", "connection">>, "setConnectionMethodByAddr",
         <<Check({}, {"body", "query"}, {}), DeviceAuthWithParents>>, {"body", "query"}, <<"asyncMethod">>) >>

DeviceRoutes ==
    << Route("get", <<"devices", ":id">>, "getDevice",
         <<Check({":id"}, {}, {"query"}), AnyOf(DeviceAuthWithParents, Other("puck"))>>, {":id", "query"}, <<"withResponseType">>),
       Route("post", <<"devices", ":id">>, "updatePartialDevice",
         <<Check({":id"}, {}, {"body"}), DeviceAuthWithParents>>, {":id", "body"}, <<"withResponseType">>),
       Route("post", <<"devices", ":id", "fwproperties">>, "setDeviceFwProperties",
         <<AskFor("icd_id", ":id"), Check({":id"}, {}, {"body"})>>, {":id", "body"}, <<>>),
       Route("post", <<"devices", ":id", "sync">>, "syncDevice",
         <<AskFor("icd_id", ":id"), Check({":id"}, {}, {"body"})>>, {":id", "body"}, <<>>),
       Route("delete", <<"devices", ":id">>, "removeDevice",
         <<AskFor("icd_id", ":id"), Check({":id"}, {}, {})>>, {":id"}, <<"deleteMethod">>) >>

PairingRoutes ==
    << Route("post", <<"devices", "pair", "init">>, "scanQrCode",
         <<Token, Check({}, {"body"}, {})>>, {"body", "token"}, <<>>),
       Route("post", <<"devices", "pair", "init", "puck">>, "initiatePuckPairing",
         <<Token, Check({}, {}, {"body"})>>, {"body", "token"}, <<>>),
       Route("post", <<"devices", "pair", "complete">>, "pairDevice",
         <<DeviceAuthWithLocation, Check({}, {"body"}, {})>>, {"body", "token"}, <<"createMethod", "withResponseType">>),
       Route("post", <<"devices", "pair", "complete", "puck">>, "completePuckPairing",
         <<Other("puck"), Check({}, {"body"}, {})>>, {"body", "token"}, <<"createMethod", "withResponseType">>),
       Route("post", <<"devices", ":id", "connection">>, "setConnectionMethod",
         <<AskFor("icd_id", ":id"), Check({":id"}, {"body"}, {})>>, {":id", "body"}, <<"asyncMethod">>) >>

DeviceCommandRoutes ==
    << Route("post", <<"devices", ":id", "systemMode">>, "setDeviceSystemMode",
         <<Check({":id"}, {"body"}, {})>>, {":id", "body"}, <<"asyncMethod", "withResponseType">>),
       Route("post", <<"devices", ":id", "reset">>, "rebootDevice",
         <<Check({":id"}, {"body"}, {})>>, {":id"}, <<"asyncMethod">>),
       Route("post", <<"devices", ":id", "healthTest", ":action">>, "healthTest",
         <<DeviceAuthWithParents, Check({":action", ":id"}, {}, {})>>, {":action", ":id"}, <<"asyncMethod">>),
       Route("get", <<"devices", ":id", "healthTest">>, "getLatestHealthTest",
         <<AskFor("icd_id", ":id"), Check({":id"}, {}, {})>>, {":id"}, <<>>),
       Route("get", <<"devices", ":id", "healthTest", ":roundId">>, "getHealthTestByRoundId",
         <<AskFor("icd_id", ":id"), Check({":id", ":roundId"}, {}, {})>>, {":id", ":roundId"}, <<>>) >>

DeviceRuleRoutes ==
    << Route("get", <<"devices", ":id", "actionRules">>, "getActionRules",
         <<AskFor("icd_id", ":id"), Check({":id"}, {}, {})>>, {":id"}, <<>>),
       Route("post", <<"devices", ":id", "actionRules">>, "upsertActionRules",
         <<AskFor("icd_id", ":id"), Check({":id"}, {"body"}, {})>>, {":id", "body"}, <<>>),
       Route("delete", <<"devices", ":id", "actionRules", ":actionRuleId">>, "removeActionRule",
         <<AskFor("icd_id", ":id"), Check({":actionRuleId", ":id"}, {}, {})>>, {":actionRuleId", ":id"}, <<"deleteMethod">>),
       Route("all", <<"devices", ":id", "pes", "*">>, "forwardToPES",
         <<AskAs("ALL/api/v2/devices/$/pes/*")>>, {":id", "body"}, <<>>),
       Route("all", <<"devices", ":id", "floSense", "*">>, "forwardToFloSense",
         <<AskAs("ALL/api/v2/devices/$/floSense/*")>>, {":id", "body"}, <<>>),
       Route("post", <<"devices", ":id", "transfer">>, "transferDevice",
         <<Token, Check({":id"}, {"body"}, {})>>, {":id", "body"}, <<"withResponseType">>) >>

LocationListRoutes ==
    << Route("post", <<"locations">>, "createLocation",
         <<AskFor("account_id", "body"), Check({}, {"body"}, {"query"})>>, {"body", "query", "token"}, <<"createMethod", "withResponseType">>),
       Route("get", <<"locations">>, "getLocations",
         <<AskFor("user_id", "query"), Check({}, {}, {"query"})>>, {"query", "token"}, <<>>),
       Route("get", <<"locations", "facets">>, "getFacets",
         <<AskFor("user_id", "query"), Check({}, {"query"}, {})>>, {"query"}, <<>>) >>

LocationRoutes ==
    << Route("get", <<"locations", ":id">>, "getLocation",
         <<Check({":id"}, {}, {"query"}), LocationAuthWithParents>>, {":id", "query"}, <<"withResponseType">>),
       Route("post", <<"locations", ":id">>, "updatePartialLocation",
         <<Check({":id"}, {}, {"body"}), LocationAuthWithParents>>, {":id", "body"}, <<"withResponseType">>),
       Route("delete", <<"locations", ":id">>, "removeLocation",
         <<AskFor("location_id", ":id"), Check({":id"}, {}, {})>>, {":id"}, <<"deleteMethod">>),
       Route("put", <<"locations", ":locationId", "user-roles", ":userId">>, "addLocationUserRole",
         <<Check({":locationId", ":userId"}, {"body"}, {}), LocationAuthWithParents>>, {":locationId", ":userId", "body"}, <<"createMethod">>),
       Route("delete", <<"locations", ":locationId", "user-roles", ":userId">>, "removeLocationUserRole",
         <<Check({":locationId", ":userId"}, {}, {}), LocationAuthWithParents>>, {":locationId", ":userId"}, <<"deleteMethod">>),
       Route("post", <<"locations", ":id", "systemMode">>, "setSystemMode",
         <<Check({":id"}, {"body"}, {}), LocationAuthWithParents>>, {":id", "body"}, <<>>) >>

AreaRoutes ==
    << Route("post", <<"locations", ":locationId", "areas">>, "addArea",
         <<Check({":locationId"}, {"body"}, {}), LocationAuthWithParents>>, {":locationId", "body"}, <<"createMethod">>),
       Route("post", <<"locations", ":locationId", "areas", ":areaId">>, "renameArea",
         <<Check({":areaId", ":locationId"}, {"body"}, {}), LocationAuthWithParents>>, {":areaId", ":locationId", "body"}, <<>>),
       Route("delete", <<"locations", ":locationId", "areas", ":areaId">>, "removeArea",
         <<Check({":areaId", ":locationId"}, {}, {}), LocationAuthWithParents>>, {":areaId", ":locationId"}, <<"deleteMethod">>),
       Route("post", <<"locations", ":id", "floSense">>, "overridePes",
         <<Check({":id"}, {"body"}, {}), LocationAuthWithParents>>, {":id", "body"}, <<"asyncMethod">>) >>

UserAccessRoutes ==
    << Route("post", <<"users", "impersonate">>, "impersonateUser", <<Check({}, {"body"}, {})>>, {"body"}, <<>>),
       Route("post", <<"users", "password", "request-reset">>, "requestPasswordReset",
         <<Check({}, {"body"}, {})>>, {"body"}, <<"asyncMethod">>),
       Route("post", <<"users", ":id", "password">>, "passwordReset",
         <<Check({":id"}, {"body"}, {})>>, {":id", "body"}, <<>>),
       Route("post", <<"users", "register">>, "acceptTermsAndVerifyEmail",
         <<Check({}, {"body"}, {})>>, {"body"}, <<"createMethod">>),
       Route("get", <<"users">>, "getByEmail", <<Token, Check({}, {"query"}, {})>>, {"query"}, <<"withResponseType">>),
       Route("get", <<"users", "register">>, "checkEmailAvailability", <<Check({}, {"query"}, {})>>, {"query"}, <<>>),
       Route("get", <<"users", "register", "token">>, "getRegistrationTokenByEmail",
         <<Check({}, {"query"}, {})>>, {"query"}, <<>>),
       Route("post", <<"users", "register", "resend">>, "resendVerificationEmail",
         <<Check({}, {"body"}, {})>>, {"body"}, <<"asyncMethod">>) >>

UserRoutes ==
    << Route("post", <<"users", "register", "verify">>, "verifyEmailAndCreateUser",
         <<Check({}, {"body"}, {})>>, {"body"}, <<"createMethod">>),
       Route("post", <<"users", "admin">>, "createAdminUser",
         <<Token, Check({}, {"body"}, {})>>, {"body", "token"}, <<"createMethod">>),
       Route("delete", <<"users", "admin", ":id">>, "removeAdminUser",
         <<Token, Check({":id"}, {}, {})>>, {":id", "token"}, <<"deleteMethod">>),
       Route("post", <<"users", ":id">>, "updatePartialUser",
         <<AskFor("user_id", ":id"), Check({":id"}, {}, {"body"})>>, {":id", "body"}, <<"withResponseType">>),
       Route("get", <<"users", "me">>, "getSelf",
         <<Token, Check({}, {}, {"query"})>>, {"query", "token"}, <<"withResponseType">>),
       Route("get", <<"users", ":id">>, "getUser",
         <<AskFor("user_id", ":id"), Check({":id"}, {}, {"query"})>>, {":id", "query"}, <<"withResponseType">>),
       Route("delete", <<"users", ":id">>, "removeUser",
         <<AskFor("user_id", ":id"), Check({":id"}, {}, {})>>, {":id"}, <<"deleteMethod">>),
       Route("post", <<"users", ":id", "alarmSettings">>, "updateAlarmSettings",
         <<AskFor("user_id", ":id"), Check({":id"}, {"body"}, {})>>, {":id", "body"}, <<>>) >>

UserSettingRoutes ==
    << Route("post", <<"users", ":id", "alarmSettings", "_get">>, "retrieveAlarmSettings",
         <<AskFor("user_id", ":id"), Check({":id"}, {"body"}, {})>>, {":id", "body"}, <<>>),
       Route("post", <<"users", ":id", "enabledFeatures">>, "addEnabledFeatures",
         <<AskFor("user_id", ":id"), Check({":id"}, {"body"}, {})>>, {":id", "body"}, <<>>),
       Route("delete", <<"users", ":id", "enabledFeatures">>, "removeEnabledFeatures",
         <<AskFor("user_id", ":id"), Check({":id"}, {"body"}, {})>>, {":id", "body"}, <<>>),
       Route("get", <<"users", ":id", "stats">>, "retrieveUserStats",
         <<AskFor("user_id", ":id"), Check({":id"}, {}, {})>>, {":id"}, <<>>),
       Route("post", <<"users", ":id", "email", "request-change">>, "requestEmailChange",
         <<AskFor("user_id", ":id"), Check({":id"}, {"body"}, {})>>, {":id", "body"}, <<>>),
       Route("post", <<"users", ":id", "email", "verify-change">>, "verifyEmailChange",
         <<AskFor("user_id", ":id"), Check({":id"}, {"body"}, {})>>, {":id", "body"}, <<>>),
       Route("get", <<"users", ":id", "alexa">>, "fetchAlexaLink",
         <<AskFor("user_id", ":id")>>, {":id", "query"}, <<>>),
       Route("post", <<"users", ":id", "alexa">>, "createAlexaLink",
         <<AskFor("user_id", ":id")>>, {":id", "body"}, <<"createMethod">>),
       Route("delete", <<"users", ":id", "alexa">>, "removeAlexaLink",
         <<AskFor("user_id", ":id")>>, {":id", "query"}, <<"emptyMethod">>) >>

PaymentRoutes ==
    << Route("get", <<"subscriptions">>, "scan", <<Token, Check({}, {}, {"query"})>>, {"query"}, <<>>),
       Route("post", <<"subscriptions">>, "createSubscription",
         <<AskFor("location_id", "body"), Check({}, {"body"}, {})>>, {"body"}, <<"createMethod", "withResponseType">>),
       Route("get", <<"subscriptions", "payment">>, "getPaymentSources",
         <<AskFor("user_id", "query"), Check({}, {"query"}, {})>>, {"query"}, <<>>),
       Route("post", <<"subscriptions", "payment">>, "updatePaymentSources",
         <<AskFor("user_id", "body"), Check({}, {"body"}, {})>>, {"body"}, <<>>) >>

SubscriptionRoutes ==
    << Route("get", <<"subscriptions", ":id">>, "getSubscription",
         <<Check({":id"}, {}, {"query"}), AskInside("location_id")>>, {":id", "query"}, <<"withResponseType">>),
       Route("delete", <<"subscriptions", ":id">>, "cancelSubscription",
         <<Check({":id"}, {}, {"body"}), AskInside("location_id")>>, {":id", "body"}, <<"deleteMethod">>),
       Route("post", <<"subscriptions", "webhooks", "stripe">>, "handleStripeWebhook",
         <<Other("stripe")>>, {"body"}, <<>>) >>

PresenceRoutes ==
    << Route("post", <<"presence", "me">>, "reportSelf", <<Token, Check({}, {}, {"body"})>>, {"body", "token"}, <<>>),
       Route("post", <<"presence">>, "report",
         <<Check({}, {"body"}, {}), AskFor("location_id", "body")>>, {"body", "token"}, <<>>),
       Route("get", <<"presence", "now">>, "getNow", <<Token>>, {}, <<>>),
       Route("get", <<"presence", "history">>, "getHistory", <<Token>>, {}, <<>>),
       Route("get", <<"presence">>, "getByUserId", <<Token, Check({}, {"query"}, {})>>, {"query"}, <<>>) >>

LookupRoutes ==
    << Route("get", <<"lists">>, "getByIds", <<Check({}, {"query"}, {})>>, {"query"}, <<>>),
       Route("get", <<"lists", ":id">>, "getById", <<Check({":id"}, {}, {"query"})>>, {":id", "query"}, <<>>) >>

LocalizationRoutes ==
    << Route("get", <<"localization", "assets">>, "getAssets", <<Token>>, {"query"}, <<>>),
       Route("post", <<"localization", "assets">>, "createAsset", <<Token>>, {"body"}, <<>>),
       Route("get", <<"localization", "assets", ":id">>, "getAssetById", <<Token>>, {":id"}, <<>>),
       Route("post", <<"localization", "assets", ":id">>, "updateAsset", <<Token>>, {":id", "body"}, <<>>),
       Route("delete", <<"localization", "assets", ":id">>, "deleteAsset", <<Token>>, {":id"}, <<>>),
       Route("get", <<"localization", "locales">>, "getLocales", <<Token>>, {"query"}, <<>>),
       Route("post", <<"localization", "locales">>, "createLocale", <<Token>>, {"body"}, <<>>),
       Route("get", <<"localization", "locales", ":id">>, "getLocaleById", <<Token>>, {":id"}, <<>>),
       Route("post", <<"localization", "locales", ":id">>, "updateLocale", <<Token>>, {":id", "body"}, <<>>),
       Route("delete", <<"localization", "locales", ":id">>, "deleteLocale", <<Token>>, {":id"}, <<>>),
       Route("get", <<"localization", "localized">>, "getLocalizedValue", <<Token>>, {"query"}, <<>>),
       Route("post", <<"localization", "localized">>, "getLocalizedValues", <<Token>>, {"body", "query"}, <<>>),
       Route("get", <<"localization", "types">>, "getTypes", <<Token>>, {"query"}, <<>>) >>

WaterRoutes ==
    << Route("get", <<"water", "consumption">>, "getConsumption",
         <<Check({}, {"query"}, {}), WaterAuthWithParents>>, {"query", "token"}, <<>>),
       Route("get", <<"water", "averages">>, "getAverages",
         <<Ask({<<"device_id", "query">>, <<"location_id", "query">>}), Check({}, {"query"}, {})>>, {"query"}, <<>>),
       Route("get", <<"water", "metrics">>, "getMetrics",
         <<WaterAuthWithParents, Check({}, {"query"}, {})>>, {"query"}, <<>>),
       Route("get", <<"water", "grafana">>, "ping", <<GrafanaAuth>>, {}, <<>>),
       Route("post", <<"water", "grafana", "search">>, "getAvailableMetrics", <<GrafanaAuth>>, {"body"}, <<>>),
       Route("post", <<"water", "grafana", "query">>, "queryMetrics", <<GrafanaAuth>>, {"body"}, <<>>),
       Route("post", <<"water", "grafana", "annotations">>, "annotations", <<GrafanaAuth>>, {"body"}, <<>>),
       Route("post", <<"water", "grafana", "tag-keys">>, "tagKeys", <<GrafanaAuth>>, {"body"}, <<>>),
       Route("post", <<"water", "grafana", "tag-values">>, "tagValues", <<GrafanaAuth>>, {"body"}, <<>>) >>

SensorRoutes ==
    << Route("get", <<"sensors", "metrics">>, "getMetrics",
         <<AskFor("device_id", "query"), Check({}, {"query"}, {})>>, {"query"}, <<>>) >>

SessionRoutes ==
    << Route("post", <<"session", "firestore">>, "issueFirestoreToken",
         <<Token, Check({}, {}, {"body"})>>, {"body", "token"}, <<>>),
       Route("post", <<"session", "logout">>, "logout", <<Token>>, {}, <<>>) >>

AlarmRoutes ==
    << Route("get", <<"alarms", ":id">>, "getAlarmById",
         <<Token, Check({":id"}, {}, {"query"})>>, {":id", "query", "token"}, <<>>),
       Route("get", <<"alarms">>, "getAlarms", <<Token>>, {"query", "token"}, <<>>) >>

IncidentRoutes ==
    << Route("post", <<"incidents", "raw">>, "createIncidentRaw", <<Token>>, {"body"}, <<>>),
       Route("get", <<"incidents">>, "getIncidentByFilter", <<Token>>, {"query"}, <<>>),
       Route("get", <<"incidents", ":id">>, "getIncident", <<Token, Check({":id"}, {}, {})>>, {":id"}, <<>>) >>

FloDetectRoutes ==
    << Route("get", <<"flodetect", "computations">>, "getLatestComputation", <<>>, {}, <<>>),
       Route("get", <<"flodetect", "computations", ":id", "events">>, "getEventChronologyPage", <<>>, {}, <<>>),
       Route("post", <<"flodetect", "computations", ":id", "events", ":startDate">>, "submitEventFeedback",
         <<>>, {}, <<>>),
       Route("get", <<"flodetect", "fixtures">>, "getFixtures",
         <<FloDetectAuth, Check({}, {"query"}, {})>>, {"query"}, <<>>),
       Route("get", <<"flodetect", "events">>, "getEvents",
         <<FloDetectAuth, Check({}, {"query"}, {})>>, {"query"}, <<>>) >>

FloDetectEventRoutes ==
    << Route("get", <<"flodetect", "events", ":id">>, "getEventById",
         <<Check({":id"}, {}, {"query"}), AskInside("device_id")>>, {":id", "query"}, <<>>),
       Route("post", <<"flodetect", "events", ":id">>, "submitEventFeedbackV2",
         <<Check({":id"}, {"body"}, {}), AskInside("device_id")>>, {":id", "body", "token"}, <<"asyncMethod">>),
       Route("get", <<"flodetect", "trends">>, "getTrends",
         <<FloDetectAuth, Check({}, {"query"}, {})>>, {"query"}, <<>>) >>

AlertListRoutes ==
    << Route("get", <<"alerts", "statistics">>, "retrieveStatistics", <<>>, {}, <<>>),
       Route("get", <<"alerts">>, "getAlarmEventsByFilter",
         <<Check({}, {}, {"query"}), AlertAuth>>, {"query", "token"}, <<>>) >>

AlertRoutes ==
    << Route("post", <<"alerts", "action">>, "clearAlarms",
         <<Ask({<<"location_id", "body">>, <<"icd_id", "body">>}), Check({}, {"body"}, {})>>, {"body"}, <<>>),
       Route("post", <<"alerts", ":id", "userFeedback">>, "submitIncidentFeedback",
         <<Check({":id"}, {"body"}, {}), AskInside("icd_id")>>, {":id", "body", "token"}, <<>>),
       Route("get", <<"alerts", "filters", ":id">>, "getFilterStateById",
         <<Token, Check({":id"}, {}, {})>>, {":id"}, <<>>),
       Route("get", <<"alerts", "filters">>, "getFilterState", <<Token, Check({}, {"query"}, {})>>, {"query"}, <<>>),
       Route("delete", <<"alerts", "filters", ":id">>, "deleteFilterState",
         <<Token, Check({":id"}, {}, {})>>, {":id"}, <<"deleteMethod">>),
       Route("post", <<"alerts", "filters">>, "createFilterState",
         <<Token, Check({":id"}, {"body"}, {})>>, {"body"}, <<>>),
       Route("get", <<"alerts", ":id">>, "getAlarmEvent",
         <<Token, Check({":id"}, {}, {"query"})>>, {":id", "query"}, <<>>),
       Route("put", <<"alerts", ":id", "feedback">>, "saveUserFeedback",
         <<Token, Check({":id"}, {"body"}, {"query"})>>, {":id", "body", "query", "token"}, <<>>),
       Route("post", <<"alerts", "report">>, "buildAlertReport", <<Token, Check({}, {"body"}, {})>>, {"body"}, <<>>) >>

TelemetryRoutes ==
    << Route("post", <<"telemetry">>, "publishTelemetry",
         <<AnyOf(Token, Other("puck")), Check({}, {"body"}, {})>>, {"body", "token"}, <<"asyncMethod">>),
       Route("get", <<"telemetry", "tags">>, "retrieveTags", <<Token>>, {"query"}, <<>>),
       Route("put", <<"telemetry", "tags">>, "createTag", <<Token>>, {"body"}, <<>>),
       Route("post", <<"telemetry", "tags", "open">>, "openTag", <<Token>>, {"body"}, <<>>),
       Route("post", <<"telemetry", "tags", "close">>, "closeTag", <<Token>>, {"body"}, <<>>) >>

IFTTTRoutes ==
    << Route("get", <<"ifttt", "v1", "status">>, "getStatus", <<>>, {}, <<>>),
       Route("post", <<"ifttt", "v1", "test", "setup">>, "getTestSetup", <<>>, {}, <<>>),
       Route("get", <<"ifttt", "v1", "user", "info">>, "getUserInfo", <<Token>>, {"token"}, <<>>),
       Route("post", <<"ifttt", "v1", "triggers", "critical_alert_detected">>, "getCriticalEventsTrigger",
         <<Token>>, {"body", "token"}, <<>>),
       Route("post", <<"ifttt", "v1", "triggers", "warning_alert_detected">>, "getWarningEventsTrigger",
         <<Token>>, {"body", "token"}, <<>>),
       Route("post", <<"ifttt", "v1", "triggers", "info_alert_detected">>, "getInfoEventsTrigger",
         <<Token>>, {"body", "token"}, <<>>),
       Route("post", <<"ifttt", "v1", "actions", "turn_water_on">>, "openValveAction", <<Token>>, {"token"}, <<>>),
       Route("post", <<"ifttt", "v1", "actions", "turn_water_off">>, "closeValveAction", <<Token>>, {"token"}, <<>>),
       Route("post", <<"ifttt", "v1", "actions", "change_device_mode">>, "changeSystemModeAction",
         <<Token>>, {"body", "token"}, <<>>),
       Route("post", <<"ifttt", "v1", "notifications", "alert">>, "notifyRealtimeAlert", <<Token>>, {"body"}, <<>>),
       Route("delete", <<"ifttt", "v1", "triggers", ":trigger_slug", "trigger_identity", ":trigger_identity">>, "deleteTriggerIdentity",
         <<Token>>, {":trigger_identity", ":trigger_slug", "token"}, <<>>) >>

DeliveryHookRoutes ==
    << Route("post", <<"delivery", "hooks", "email", "events">>, "registerSendgridEmailEvent", <<>>, {"body"}, <<>>),
       Route("post", <<"delivery", "hooks", "email", "events", ":incidentId", ":userId">>, "registerEmailServiceEvent",
         <<Token, Check({":incidentId", ":userId"}, {"body"}, {})>>, {":incidentId", ":userId", "body"}, <<>>),
       Route("post", <<"delivery", "hooks", "sms", "events", ":incidentId", ":userId">>, "registerSmsServiceEvent",
         <<Other("twilio"), Check({":incidentId", ":userId"}, {"body"}, {})>>, {":incidentId", ":userId", "body"}, <<>>),
       Route("post", <<"delivery", "hooks", "voice", "events", ":incidentId", ":userId">>, "registerVoiceCallStatusEvent",
         <<Other("twilio")>>, {":incidentId", ":userId", "body"}, <<>>) >>

HeadsUpRoutes ==
    << Route("post", <<"headsup", "devices">>, "handleDeviceUpdate",
         <<Token, Check({}, {"body"}, {})>>, {"body"}, <<"asyncMethod">>) >>

EventRoutes ==
    << Route("put", <<"events">>, "putEvents", <<>>, {"query"}, <<"asyncMethod">>) >>

AccountSyncRoutes ==
    << Route("get", <<"moen", "ping">>, "getPing", <<>>, {}, <<>>),
       Route("get", <<"moen", "token", "trade">>, "getTokenTrade", <<>>, {}, <<>>),
       Route("head", <<"moen", "sync", "me">>, "headSyncMe", <<>>, {}, <<>>),
       Route("get", <<"moen", "sync", "me">>, "getSyncMe", <<>>, {}, <<>>),
       Route("put", <<"moen", "sync", "me">>, "putSyncMe", <<>>, {}, <<>>),
       Route("delete", <<"moen", "sync", "me">>, "deleteSyncMe", <<>>, {"query"}, <<>>),
       Route("post", <<"moen", "sync", "new">>, "postSyncNew", <<>>, {"body"}, <<"createMethod">>),
       Route("post", <<"moen", "sync", "auth">>, "postSyncAuth", <<>>, {"body"}, <<>>),
       Route("get", <<"moen", "sync", "id">>, "getSyncIds", <<Token>>, {"query"}, <<>>),
       Route("get", <<"moen", "sync", "locations">>, "getSyncLocations", <<Token>>, {"query"}, <<>>),
       Route("delete", <<"moen", "sync", "locations">>, "deleteSyncLocations", <<Token>>, {"body"}, <<>>),
       Route("post", <<"moen", "sync", "locations">>, "postSyncLocations", <<Token>>, {"body"}, <<>>) >>

EmailRoutes ==
    << Route("get", <<"emails", "unsubscribe", ":userId">>, "getUnsubscribePreferences",
         <<AskFor("user_id", ":userId"), Check({":userId"}, {}, {})>>, {":userId"}, <<"asyncMethod">>),
       Route("post", <<"emails", "unsubscribe", "weekly", ":userId", ":locationId">>, "unsubscribeUserFromWeeklyEmail",
         <<Check({":locationId", ":userId"}, {}, {})>>, {":locationId", ":userId"}, <<"asyncMethod">>),
       Route("post", <<"emails", "subscribe", "weekly", ":userId", ":locationId">>, "subscribeUserToWeeklyEmail",
         <<Check({":locationId", ":userId"}, {}, {})>>, {":locationId", ":userId"}, <<"asyncMethod">>) >>

ResourceEventRoutes ==
    << Route("get", <<"audit", "events">>, "getEvents", <<Token, Check({}, {"query"}, {})>>, {"query"}, <<>>) >>

AlexaRoutes ==
    << Route("get", <<"app", "alexa">>, "getPing", <<>>, {}, <<>>),
       Route("get", <<"app", "alexa", "ping">>, "getPing", <<>>, {}, <<>>),
       Route("get", <<"app", "alexa", "client">>, "getClient", <<Token>>, {}, <<>>),
       Route("get", <<"app", "alexa", "authorize">>, "getAuthorize", <<Token>>, {"query"}, <<>>),
       Route("post", <<"app", "alexa", "authorize">>, "postAuthorize", <<Token>>, {"body", "query"}, <<>>) >>

AlarmDotcomRoutes ==
    << Route("get", <<"app", "alarm-dotcom">>, "getPing", <<>>, {}, <<>>),
       Route("post", <<"app", "alarm-dotcom", "fulfillment">>, "postFulfillment", <<>>, {"body"}, <<>>),
       Route("get", <<"app", "alarm-dotcom", "jwk">>, "getJWK", <<>>, {}, <<>>) >>

\* In the order in which the controllers are registered.
Table ==
    PingRoutes \o InviteRoutes \o AccountRoutes \o DeviceLookupRoutes
       \o DeviceRoutes \o PairingRoutes \o DeviceCommandRoutes
       \o DeviceRuleRoutes \o LocationListRoutes \o LocationRoutes
       \o AreaRoutes \o UserAccessRoutes \o UserRoutes \o UserSettingRoutes
       \o PaymentRoutes \o SubscriptionRoutes \o PresenceRoutes
       \o LookupRoutes \o LocalizationRoutes \o WaterRoutes \o SensorRoutes
       \o SessionRoutes \o AlarmRoutes \o IncidentRoutes \o FloDetectRoutes
       \o FloDetectEventRoutes \o AlertListRoutes \o AlertRoutes
       \o TelemetryRoutes \o IFTTTRoutes \o DeliveryHookRoutes
       \o HeadsUpRoutes \o EventRoutes \o AccountSyncRoutes \o EmailRoutes
       \o ResourceEventRoutes \o AlexaRoutes \o AlarmDotcomRoutes

Parameters ==
    {":id", ":userId", ":locationId", ":areaId", ":action", ":roundId", ":actionRuleId", ":startDate",
     ":incidentId", ":trigger_slug", ":trigger_identity"}

Bound(r) == ToSet(r.path) \cap Parameters

(***************************************************************************)
(* Express: the first route with the verb and the path.                    *)
(***************************************************************************)
SegmentMatches(pattern, segment) == pattern \in {segment, "*"} \/ pattern \in Parameters

\* Mutant: a route also takes the paths that only start like its own.
MatchesPrefix(r, req) ==
    /\ r.verb \in {req.verb, "all"}
    /\ Len(req.path) >= Len(r.path)
    /\ \A i \in DOMAIN r.path : SegmentMatches(r.path[i], req.path[i])

Matches(r, req) ==
    LET n == Len(r.path)
    IN  /\ r.verb \in {req.verb, "all"}
        /\ Len(req.path) = n \/ (Len(req.path) > n /\ r.path[n] = "*")
        /\ \A i \in 1 .. n : SegmentMatches(r.path[i], req.path[i])

Serving(req) ==
    LET serving == {i \in DOMAIN Table : Matches(Table[i], req)}
    IN  IF serving = {} THEN 0 ELSE CHOOSE i \in serving : \A j \in serving : i <= j

Sample(path, rest) ==
    LET plain == [i \in DOMAIN path |-> IF path[i] \in Parameters \cup {"*"} THEN "some" ELSE path[i]]
    IN  IF Last(path) = "*" THEN plain \o rest ELSE plain

\* Which of query and body are there, and whether their contents are good.
Contents == {c \in (SUBSET {"query", "body"}) \X BOOLEAN : c[1] # {} \/ c[2]}

\* Every route is asked for, with all contents and tokens.
Requests ==
    UNION {{[wants |-> i, verb |-> verb, path |-> Sample(Table[i].path, rest), sections |-> contents[1],
             good |-> contents[2], token |-> from] :
               verb \in IF Table[i].verb = "all" THEN {"get", "post", "delete"} ELSE {Table[i].verb},
               rest \in IF Last(Table[i].path) = "*" THEN {<<>>, <<"more">>} ELSE {<<>>},
               contents \in Contents, from \in {"none", "user", "puck", "moen"}} :
           i \in DOMAIN Table}

RouteInit ==
    /\ stage = "received"
    /\ incoming \in Requests
    /\ route = 0 /\ at = 1
    /\ token = "none" /\ asked = <<>> /\ found = "none" /\ status = ""

Answer(code) ==
    /\ stage' = "answered"
    /\ status' = code
    /\ UNCHANGED <<incoming, route, at>>

Dispatch ==
    /\ stage = "received"
    /\ stage' = "guards"
    /\ route' = Serving(incoming)
    /\ route' # 0
    /\ UNCHANGED <<incoming, at, token, asked, found, status>>

(***************************************************************************)
(* The guards of the route, one after the other.                           *)
(***************************************************************************)
R == Table[route]

Guard == R.guards[at]

AtGuard(kind) == stage = "guards" /\ at <= Len(R.guards) /\ Guard.kind = kind

Continue ==
    /\ at' = at + 1
    /\ UNCHANGED <<stage, incoming, route, found, status>>

\* The id under which the authorization service knows the operation.
MethodId(r, override, verb) ==
    <<verb>> \o IF override # "" THEN <<override>>
                ELSE [i \in DOMAIN r.path |-> IF r.path[i] \in Parameters THEN "$" ELSE r.path[i]]

(***************************************************************************)
(* A token that Moen issued is exchanged for one of the user, which takes  *)
(* its place in the header, before anything else is looked at; an answer   *)
(* that the exchange does not explain is an error of the server.           *)
(***************************************************************************)
TradeRefusals == {"400", "401", "403", "409", "500"}

PassTrade ==
    /\ incoming.token = "moen"
    /\ \/ AtGuard("ask") \/ AtGuard("any") \/ AtGuard("inside")
       \/ AtGuard("unless") /\ "query" \notin incoming.sections
    /\ \/ /\ incoming' = [incoming EXCEPT !.token = "user"]
          /\ UNCHANGED <<stage, route, at, token, asked, found, status>>
       \/ \E refusal \in IF Guard.kind = "any" THEN {"401"} ELSE TradeRefusals :
             Answer(refusal) /\ UNCHANGED <<token, asked, found>>

(***************************************************************************)
(* The authorization service knows users; it may say no to them (401 or    *)
(* 403), and to anyone else.  500 when it times out, fails or answers what *)
(* the middleware does not know, and when the look-up of what to ask for   *)
(* fails.                                                                  *)
(***************************************************************************)
AskService(override) ==
    /\ incoming.token # "moen"
    /\ IF incoming.token = "none"
       THEN Answer("401") /\ UNCHANGED <<token, asked, found>>
       ELSE /\ asked' = MethodId(R, override, incoming.verb)
            /\ \/ incoming.token = "user" /\ token' = "user" /\ Continue
               \/ \E refusal \in {"401", "500"} \cup IF incoming.token = "user" THEN {"403"} ELSE {} :
                     Answer(refusal) /\ UNCHANGED <<token, found>>

PassAsk ==
    /\ AtGuard("ask") /\ incoming.token # "moen"
    /\ IF Guard.nested \subseteq incoming.sections
       THEN AskService(Guard.method)
       ELSE Answer(IF incoming.token = "none" THEN "401" ELSE "500") /\ UNCHANGED <<token, asked, found>>

PassPuck ==
    /\ AtGuard("puck")
    /\ IF incoming.token = "puck"
       THEN token' = "puck" /\ Continue /\ UNCHANGED asked
       ELSE Answer("401") /\ UNCHANGED <<token, asked, found>>

\* authUnion: the second of them is tried whatever error the first one ends with.
PassAny ==
    /\ AtGuard("any") /\ incoming.token # "moen"
    /\ \/ incoming.token # "none" /\ token' = incoming.token /\ Continue
       \/ incoming.token # "puck" /\ Answer("401") /\ UNCHANGED <<token, found>>
    /\ asked' = IF incoming.token = "none" THEN asked ELSE MethodId(R, Guard.first.method, incoming.verb)

\* The signatures of Twilio and Stripe.
PassSignature ==
    /\ AtGuard("twilio") \/ AtGuard("stripe")
    /\ \/ Continue /\ UNCHANGED <<token, asked>>
       \/ Answer("401") /\ UNCHANGED <<token, asked, found>>

\* An invitation's token in the query stands for one in the header.
PassUnless ==
    /\ AtGuard("unless")
    /\ \/ "query" \in incoming.sections /\ Continue /\ UNCHANGED <<token, asked>>
       \/ AskService("")

\* Mutant: a query string is unexpected where there is a body, even if it has a codec.
AcceptsOneSection(check) ==
    /\ Bound(R) # {} => check.params # {}
    /\ incoming.sections \subseteq check.allowed /\ incoming.sections # {"query", "body"}
    /\ check.params \subseteq Bound(R)
    /\ check.required \subseteq incoming.sections
    /\ incoming.good \/ incoming.sections = {}

Accepts(check) ==
    /\ Bound(R) # {} => check.params # {}           \* else: "Unexpected section: params"
    /\ incoming.sections \subseteq check.allowed
    /\ check.params \subseteq Bound(R)
    /\ check.required \subseteq incoming.sections
    /\ incoming.good \/ incoming.sections = {}

PassCheck ==
    /\ AtGuard("check")
    /\ IF Accepts(Guard)
       THEN Continue /\ UNCHANGED <<token, asked>>
       ELSE Answer("400") /\ UNCHANGED <<token, asked, found>>

(***************************************************************************)
(* What comes of a handler: a model, nothing (an empty Option), missing (a *)
(* ResourceDoesNotExistError, which is a conflict), or an exception with   *)
(* the status of its class; 500 is one of no class of the API's.           *)
(***************************************************************************)
Exceptions == {"400", "401", "403", "404", "409", "410", "429", "500"}

Thrown(result) == result = "missing" \/ result \in Exceptions

(***************************************************************************)
(* The decorators.  withResponseType turns nothing into NotFoundError, and *)
(* deleteMethod a ResourceDoesNotExistError into 204; any other exception  *)
(* passes through all of them.                                             *)
(***************************************************************************)
Decorated(decorator, result) ==
    CASE decorator = "withResponseType" /\ result = "nothing" -> "404"
      [] decorator = "deleteMethod" /\ result = "missing"     -> "204"
      [] decorator = "withResponseType" \/ Thrown(result)      -> result
      [] decorator = "createMethod"                           -> "201"
      [] decorator = "asyncMethod"                            -> "202"
      [] decorator = "deleteMethod"                           -> "200"
      [] decorator = "emptyMethod"                            -> "204"

\* The error handler of the server, and express for what was not thrown.
Told(result) ==
    CASE result = "missing"             -> "409"
      [] result \in {"model", "nothing"} -> "200"
      [] OTHER                           -> result

\* Mutant: the decorators apply from the outside in.
StatusOutsideIn(decorators, result) ==
    Told(FoldLeft(LAMBDA r, d : Decorated(d, r), result, decorators))

Status(decorators, result) == Told(FoldRight(Decorated, decorators, result))

Finds(result) ==
    /\ found' = result
    /\ Answer(Status(R.decorators, result))

Throws == \E exception \in Exceptions \cup {"missing"} : Finds(exception)

(***************************************************************************)
(* What the handler reads first may not exist; then it does not ask: it    *)
(* finds nothing, or has nothing to cancel, or its look-up throws.         *)
(***************************************************************************)
PassInside ==
    /\ AtGuard("inside")
    /\ \/ AskService("")
       \/ /\ incoming.token # "none" \/ R.handler = "submitIncidentFeedback"
          /\ Throws \/ Finds(IF "withResponseType" \in ToSet(R.decorators) THEN "nothing" ELSE "missing")
          /\ UNCHANGED <<token, asked>>

Begin ==
    /\ stage = "guards" /\ at > Len(R.guards)
    /\ stage' = "handler"
    /\ UNCHANGED <<incoming, route, at, token, asked, found, status>>

Handle ==
    /\ stage = "handler"
    /\ \/ Finds("model") \/ Throws
       \/ "withResponseType" \in ToSet(R.decorators) /\ Finds("nothing")
    /\ UNCHANGED <<token, asked>>

RouteNext ==
    \/ Dispatch
    \/ PassTrade \/ PassAsk \/ PassPuck \/ PassAny \/ PassSignature \/ PassUnless \/ PassCheck \/ PassInside
    \/ Begin \/ Handle

RouteSpec == RouteInit /\ [][RouteNext]_routeVars

-----------------------------------------------------------------------------
(* A request for a route is served by that route's handler: no route that  *)
(* is registered earlier, with a parameter where this one has a word or    *)
(* with a wildcard, takes its requests.                                    *)
ReachesItsHandler ==
    route # 0 => route = incoming.wants

(* A request that carries just what its handler reads is not refused as    *)
(* invalid before the handler sees it, but for a token of Moen that its    *)
(* exchange finds invalid.  Two routes refuse every request, because their *)
(* validators demand a path parameter that their paths do not have; a      *)
(* third wants a body that only confirms the request.                      *)
AcceptsWhatItReads ==
    (/\ status = "400" /\ found = "none"
     /\ incoming.good /\ incoming.token # "moen"
     /\ incoming.sections = R.reads \cap {"query", "body"})
        => R.handler \in {"getOwnDevice", "createFilterState", "rebootDevice"}

(* The decorators of a route, in the order in which it has them, tell the  *)
(* client what came of the handler: nothing is answered with 404, a        *)
(* missing resource with 409, or with 204 when it was to be deleted, and   *)
(* any other exception with its own status.  A request is told to have     *)
(* succeeded only if it passed every guard of its route and its handler    *)
(* ended without an exception and with something.                          *)
OutcomeIsTold ==
    stage = "answered" =>
        /\ found = "nothing" => status = "404"
        /\ found = "missing" => status = IF "deleteMethod" \in ToSet(R.decorators) THEN "204" ELSE "409"
        /\ found \in Exceptions => status = found
        /\ status \in {"200", "201", "202"} => found = "model" /\ at > Len(R.guards)

=============================================================================
