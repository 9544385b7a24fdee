\* One administrator who switches the mail service off while another configures it.
SPECIFICATION SettingsSpec
CONSTANTS
    Vals = {v1, v2}
    Forms = {"profile"}
    Domains = {}
    Secrets = {"keep"}
    MaxWrites = 2
PROPERTIES
    SwitchKeepsConfiguration
