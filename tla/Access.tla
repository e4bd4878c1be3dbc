------------------------------- MODULE Access -------------------------------
(***************************************************************************)
(* Who may call what: the levels of administrators, the permission checks  *)
(* and the guards that routes puts in front of each handler.               *)
(*                                                                         *)
(* A caller is a record of a role and a level; only administrators have a  *)
(* level (AuthInfo.AdminUser is nil for everybody else).                   *)
(***************************************************************************)
EXTENDS Naturals, Sequences

NoLevel == "nil"

Anonymous == [role |-> "anonymous", level |-> NoLevel]

\* adminLevelWeights
GetRank(level) == CASE level = "super"   -> 3
                    [] level = "manager" -> 2
                    [] level = "support" -> 1
                    [] OTHER             -> 0

HasAccessTo(a, required) == GetRank(a) >= GetRank(required)

CanModifyAdminLevel(a, b) == HasAccessTo(a, b)

-----------------------------------------------------------------------------
(* The checks.  Each answers "pass", "forbidden" or, when it follows the   *)
(* AdminUser pointer of a caller who has none, "panic".                    *)

RequireRoles(roles)   == [kind |-> "roles", roles |-> roles]
MinimumAdminLevel(l)  == [kind |-> "minimum", level |-> l]
RequireLevels(levels) == [kind |-> "levels", levels |-> levels]

Allows(check, who) ==
  CASE check.kind = "roles"   -> who.role \in check.roles
    [] check.kind = "minimum" -> who.role = "admin" /\ HasAccessTo(who.level, check.level)
    [] check.kind = "levels"  -> who.level \in check.levels

CheckResult(check, who) ==
  IF check.kind = "levels" /\ who.role # "admin" THEN "panic"
  ELSE IF Allows(check, who) THEN "pass" ELSE "forbidden"

\* Mutant: one check that passes is enough.
CheckPermissionsAny(who, checks) ==
  IF who = Anonymous THEN "unauthorized"
  ELSE IF \E i \in 1..Len(checks) : CheckResult(checks[i], who) = "pass" THEN "pass"
  ELSE "forbidden"

\* The checks in order; the first that does not pass decides.
CheckPermissions(who, checks) ==
  IF who = Anonymous THEN "unauthorized"
  ELSE LET failing == {i \in 1..Len(checks) : CheckResult(checks[i], who) # "pass"}
       IN IF failing = {} THEN "pass"
          ELSE CheckResult(checks[CHOOSE i \in failing : \A j \in failing : i <= j], who)

-----------------------------------------------------------------------------
(* routes: the checks in front of the handlers.  requireAuthenicatedUser   *)
(* is a list without checks.                                               *)

Customers == RequireRoles({"user"})
Vendors   == RequireRoles({"vendor"})
Admins    == RequireRoles({"admin"})

PublicHandlers ==
  {"getCSRFToken", "getPublicCategories", "registerNormalUser", "signIn", "verifyLogin2FA",
   "verifyLogin2faRecoveryCode", "refreshToken", "forgetPassword",
   "confirmForgetPasswordToken", "verifyForgetPassword2fa",
   "verifyForgetPasswordRecoveryCode", "resetPassword", "signInWithProvider",
   "googleCallbackHandler", "activateUser", "verifyEmailChange", "uploadImage",
   "getUserAddresses", "createUserAddress", "getUserAddressByID", "setDefaultAddress",
   "getProducts", "getProduct", "getProductReviews", "getReviewRatingAnalytics"}

SignedInHandlers ==
  {"getNormalUsers", "getCurrentUser", "changePassword", "verifyChangePassword2fa",
   "initiateEmailChange", "verifyEmailChange2fa"}

CustomerHandlers ==
  {"getCurrentUserCart", "getGroupVendorCartItem", "getVendorCartItem", "handleCheckout",
   "initiatePayment", "addCardItem", "getCartItemByID", "removeCartItem",
   "setCartItemQuantity", "handleStripeWebhook", "getUserViewOrderLists",
   "getOrderForUserByID", "addProductToWhitelist", "removeProductFromWhitelist",
   "getGroupVendorWishlisttem", "getVendorWishlistItem", "createReview"}

StaffHandlers ==
  {"setup2fa", "verify2faSetup", "viewRecoveryCodes", "resetRecoveryCodes",
   "getOptionTypes", "getOptionTypeByID"}

VendorHandlers == {"createProduct", "publishProduct", "unPublishProduct"}

AdminHandlers ==
  {"getAuditLogs", "getAuditLogByID", "getAdminUsers", "removeReview", "getVendorUsers",
   "createVendor", "getAdminCategoriesView"}

ManagerHandlers ==
  {"changeAdminRole", "enableAdminAccount", "disableAdminAccount", "removeCategory",
   "setCategoryVisibility", "createOptionType", "addOptionValues", "updateOptionType",
   "updateOptionValue", "deleteOptionValue"}

\* The lists of checks a handler is behind; a public handler is behind none.
Guard(handler) ==
  CASE handler \in SignedInHandlers -> << >>
    [] handler \in CustomerHandlers -> <<Customers>>
    [] handler \in StaffHandlers    -> <<RequireRoles({"admin", "vendor"})>>
    [] handler \in VendorHandlers   -> <<Vendors>>
    [] handler \in {"approveProduct", "rejectProduct"} -> <<RequireLevels({"manager"})>>
    [] handler \in AdminHandlers    -> <<Admins>>
    [] handler \in ManagerHandlers  -> <<Admins, MinimumAdminLevel("manager")>>
    [] handler = "createAdmin"      -> <<Admins, MinimumAdminLevel("super")>>
    [] handler = "createCategory"   -> <<Admins, RequireLevels({"super"})>>

\* What a caller meets on the way to a handler.
Admission(who, handler) ==
  IF handler \in PublicHandlers THEN "pass" ELSE CheckPermissions(who, Guard(handler))
=============================================================================
