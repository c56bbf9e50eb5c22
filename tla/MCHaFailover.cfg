SPECIFICATION FairSpec
CONSTANTS
  N = 2
  None = None
  MaxUpsets = 3
  Deployments <- MCDeployments
PROPERTIES FollowersKeepPromise Follows
