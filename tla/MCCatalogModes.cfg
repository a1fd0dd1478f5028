\* A registration of each mode on its own.
SPECIFICATION Spec
CONSTANTS
    NoProvider = NoProvider
    NoRoute = NoRoute
    Providers = {p1, p2}
    Names = {"a"}
    Modes = {"api_key", "subscription_cli"}
    Routes = {x1, x2}
    Models = {"m"}
    Prices <- SomePrices
    Tokens = {0, 1, 4}
    Admins = {a1}
    Requests = {r1}
    SecretKeys = {0, 1, 2}
    Unit = 3
    MaxI64 = 3
INVARIANT RegistrationAccepted
