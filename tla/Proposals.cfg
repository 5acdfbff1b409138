CONSTANTS
  Upper <- MCUpper
  RuleLines <- MCRuleLines
  TemplateLines <- MCTemplateLines
  MaxRuleLines = 5
  MaxTemplateLines = 3
  Lower <- MCLower
  Letters <- MCLetters
  Purposes <- MCPurposes
  TextOf <- MCTextOf
  Number <- MCNumber
  Attribute <- MCAttribute
  MaxCatalog = 3
  Nothing = Nothing
SPECIFICATION Spec
INVARIANTS
  RulesSayWhatWasAnswered
  TemplatesPermitWhatWasListed
  FoundByKeywords
