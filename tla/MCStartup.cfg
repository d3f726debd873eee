SPECIFICATION StartupSpec
CONSTANTS
    max_routes = 2
    max_upstreams = 2
    max_keys = 2
    RouteKeys = {"prefix", "upstreams", "rate_limit", "auth"}
    SettingKeys = {"api_key_env", "api_key_envs", "burst"}
    UpstreamKeys = {"host", "port"}
    Prefixes = {"/", "/a"}
    Numbers <- MCNumbers
INVARIANTS
    RefusedExactlyWhenFlawed
    LoadedIsUsable
